---- MODULE Spec2Model ----
(***************************************************************************)
(* Enki_V3 data generation (src/src/enki_class_v2.py): seed, difference    *)
(* cascade, flatten / trend codes, modulation matrix, alpha roots, alpha   *)
(* records.  One action per step of Enki_V3.run_pipeline; `pc` names the   *)
(* method that runs next.  The AlphaTransformer (alpha_transformer.py), the *)
(* prompts of Enki_User_Interface and choose_mod_table and the loop of      *)
(* enki_pipeline.main follow, each with a specification of its own.         *)
(*                                                                          *)
(* Python values: a list / numpy array is a sequence (index i of the code  *)
(* is index i+1 here), an ordered dict is a sequence of [key, value]       *)
(* records, a DataFrame is a record of its labels and its matrix of rows.  *)
(* A field that is still None is <<>> (0 for N and kappa_total).           *)
(***************************************************************************)
EXTENDS Integers, Sequences, FiniteSets, TLC

VARIABLES pc, N, phi_, roots_list_, kappa_roots_, kappa_total,
          data_triangle_roots, combined_values_of_data_triangle,
          pva_array, pva_length, DT_df, PVA_Mods, PVA_Mods_df,
          alpha_roots_pre_pivot, alpha_roots_post_pivot,
          combined_alpha_roots, alpha_roots_df, alpha_values,
          alpha_phorms_dataframe,
          mod_table_version, phorms_mod_table_df,
          transphormed_alpha_dataframe, transformer_result,
          records_transformed, loop_max_value, last_call,
          previous_N,
          user_input, user_response, n_,
          choice, selected_versions, confirm, selected_mod_tables,
          mod_table_index, successful_exports, failed_exports, main_result

\* The fields of the AlphaTransformer in use, the outcome of the last call
\* made on it, the number of records its transformation loop got to, and
\* the max_value that loop ran with; last_call is the call itself
transformer_vars ==
    <<mod_table_version, phorms_mod_table_df, transphormed_alpha_dataframe,
      transformer_result, records_transformed, loop_max_value, last_call>>

\* The prompts of Enki_User_Interface (the line typed for n, the candidate n_
\* it gave, the answer to the continue prompt), of choose_mod_table (the
\* line typed, the versions it selected, the answer to the confirmation,
\* the list returned) and the bookkeeping of enki_pipeline.main; a typed
\* line is the sequence of its characters
script_vars ==
    <<user_input, user_response, n_,
      choice, selected_versions, confirm, selected_mod_tables,
      mod_table_index, successful_exports, failed_exports, main_result>>

vars == <<pc, N, phi_, roots_list_, kappa_roots_, kappa_total,
          data_triangle_roots, combined_values_of_data_triangle,
          pva_array, pva_length, DT_df, PVA_Mods, PVA_Mods_df,
          alpha_roots_pre_pivot, alpha_roots_post_pivot,
          combined_alpha_roots, alpha_roots_df, alpha_values,
          alpha_phorms_dataframe,
          mod_table_version, phorms_mod_table_df,
          transphormed_alpha_dataframe, transformer_result,
          records_transformed, loop_max_value, last_call,
          previous_N,
          user_input, user_response, n_,
          choice, selected_versions, confirm, selected_mod_tables,
          mod_table_index, successful_exports, failed_exports, main_result>>

(***************************************************************************)
(* Bound of the model.                                                     *)
(***************************************************************************)
\* the seed lengths explored are MinN..MaxN
MaxN == 7

(***************************************************************************)
(* Program constants.                                                      *)
(***************************************************************************)
\* if 6 <= n <= 15
MinN == 6
UpperN == 15
\* random.randint(0, 9)
MaxDigitValue == 9
\* constant_values=-99
SENTINEL == -99

\* The seeds explored: the seed of the worked scenario and every word of MinN
\* digits over the two extreme digits; a longer seed repeats its first MinN digits.
Digits == {0, MaxDigitValue}

WorkedSeed == <<3, 5, 2, 8, 1, 4>>

BaseSeeds == [1..MinN -> Digits] \cup {WorkedSeed}

Extend(w, n) == [i \in 1..n |-> w[((i - 1) % Len(w)) + 1]]

SeedSpace(n) == {Extend(w, n) : w \in BaseSeeds}

None == <<>>

Abs(x) == IF x < 0 THEN -x ELSE x

Max(a, b) == IF a >= b THEN a ELSE b

Min(a, b) == IF a <= b THEN a ELSE b

(***************************************************************************)
(* The named sequences: a list of (name, array) tuples searched linearly.  *)
(***************************************************************************)
KappaName(i) == "kappa_root_" \o ToString(i)

Root(name, array) == [name |-> name, array |-> array]

\* index of the first tuple called `name`, 0 when there is none
RootIndex(roots, name) ==
    IF \E i \in 1..Len(roots) : roots[i].name = name
    THEN CHOOSE i \in 1..Len(roots) :
            /\ roots[i].name = name
            /\ \A j \in 1..(i - 1) : roots[j].name # name
    ELSE 0

\* for i, (name, array) in enumerate(roots): if name == ...: roots[i] = ...; break
SetRoot(roots, name, values) ==
    IF RootIndex(roots, name) = 0 THEN roots
    ELSE [roots EXCEPT ![RootIndex(roots, name)] = Root(name, values)]

\* the difference without the absolute value
SignedDiff(a) == [i \in 1..(Len(a) - 1) |-> a[i + 1] - a[i]]

\* np.abs(np.diff(a))
AbsDiff(a) == [i \in 1..(Len(a) - 1) |-> Abs(a[i + 1] - a[i])]

\* self.kappa_total = self.N - 4
KappaTotal(n) == n - 4

\* the loop one iteration short
KappaStepsShort(total) == total - 2

\* range(self.kappa_total - 1)
KappaSteps(total) == total - 1

DefaultMaxValue == 9

\* A number with its Python type: a native int, or another numeric type
NativeInt(x) == [value |-> x, native |-> TRUE]

Float(x) == [value |-> x, native |-> FALSE]

\* No AlphaTransformer has been constructed
NoTransformer ==
    /\ loop_max_value = NativeInt(DefaultMaxValue)
    /\ last_call = "none"
    /\ mod_table_version = ""
    /\ phorms_mod_table_df = None
    /\ transphormed_alpha_dataframe = None
    /\ transformer_result = "no transformer"
    /\ records_transformed = 0

\* nothing typed yet, main not started
NoScript ==
    /\ user_input = None
    /\ user_response = None
    /\ n_ = 0
    /\ choice = None
    /\ selected_versions = None
    /\ confirm = None
    /\ selected_mod_tables = None
    /\ mod_table_index = 0
    /\ successful_exports = None
    /\ failed_exports = None
    /\ main_result = "not returned"

Init ==
    /\ pc = "Enki_User_Interface"
    /\ N = 0
    /\ phi_ = None
    /\ roots_list_ = None
    /\ kappa_roots_ = None
    /\ kappa_total = 0
    /\ data_triangle_roots = None
    /\ combined_values_of_data_triangle = None
    /\ pva_array = None
    /\ pva_length = 0
    /\ DT_df = None
    /\ PVA_Mods = None
    /\ PVA_Mods_df = None
    /\ alpha_roots_pre_pivot = None
    /\ alpha_roots_post_pivot = None
    /\ combined_alpha_roots = None
    /\ alpha_roots_df = None
    /\ alpha_values = None
    /\ alpha_phorms_dataframe = None
    /\ NoTransformer
    /\ previous_N = 0
    /\ NoScript

\* Step 1: the user confirms some n in 6..15, or quits (None): run_pipeline returns
Enki_User_Interface ==
    /\ pc = "Enki_User_Interface"
    /\ \/ \E n \in MinN..Min(MaxN, UpperN) :
            /\ N' = n
            /\ pc' = "create_base"
       \/ /\ N' = 0
          /\ pc' = "returned"
    /\ UNCHANGED <<phi_, roots_list_, kappa_roots_, kappa_total,
                   data_triangle_roots, combined_values_of_data_triangle,
                   pva_array, pva_length, DT_df, PVA_Mods, PVA_Mods_df,
                   alpha_roots_pre_pivot, alpha_roots_post_pivot,
                   combined_alpha_roots, alpha_roots_df, alpha_values,
                   alpha_phorms_dataframe>>
    /\ UNCHANGED transformer_vars
    /\ UNCHANGED previous_N
    /\ UNCHANGED script_vars

\* Step 2
create_base ==
    /\ pc = "create_base"
    /\ \E seed \in SeedSpace(N) : phi_' = seed
    /\ pc' = "root_arrays"
    /\ UNCHANGED <<N, roots_list_, kappa_roots_, kappa_total,
                   data_triangle_roots, combined_values_of_data_triangle,
                   pva_array, pva_length, DT_df, PVA_Mods, PVA_Mods_df,
                   alpha_roots_pre_pivot, alpha_roots_post_pivot,
                   combined_alpha_roots, alpha_roots_df, alpha_values,
                   alpha_phorms_dataframe>>
    /\ UNCHANGED transformer_vars
    /\ UNCHANGED previous_N
    /\ UNCHANGED script_vars

\* Step 3
root_arrays ==
    /\ pc = "root_arrays"
    /\ roots_list_' = << Root("chi_root", <<>>), Root("theta_root", <<>>),
                         Root("lambda_root", <<>>), Root("epsilon_root", <<>>) >>
    /\ pc' = "create_kappa_root_arrays"
    /\ UNCHANGED <<N, phi_, kappa_roots_, kappa_total,
                   data_triangle_roots, combined_values_of_data_triangle,
                   pva_array, pva_length, DT_df, PVA_Mods, PVA_Mods_df,
                   alpha_roots_pre_pivot, alpha_roots_post_pivot,
                   combined_alpha_roots, alpha_roots_df, alpha_values,
                   alpha_phorms_dataframe>>
    /\ UNCHANGED transformer_vars
    /\ UNCHANGED previous_N
    /\ UNCHANGED script_vars

\* Step 4
create_kappa_root_arrays ==
    /\ pc = "create_kappa_root_arrays"
    /\ kappa_total' = KappaTotal(N)
    /\ kappa_roots_' = [i \in 1..KappaTotal(N) |-> Root(KappaName(i - 1), <<>>)]
    /\ pc' = "create_data_triangle_roots"
    /\ UNCHANGED <<N, phi_, roots_list_,
                   data_triangle_roots, combined_values_of_data_triangle,
                   pva_array, pva_length, DT_df, PVA_Mods, PVA_Mods_df,
                   alpha_roots_pre_pivot, alpha_roots_post_pivot,
                   combined_alpha_roots, alpha_roots_df, alpha_values,
                   alpha_phorms_dataframe>>
    /\ UNCHANGED transformer_vars
    /\ UNCHANGED previous_N
    /\ UNCHANGED script_vars

\* Step 5
create_data_triangle_roots ==
    /\ pc = "create_data_triangle_roots"
    /\ roots_list_' = SetRoot(roots_list_, "chi_root", phi_)
    /\ data_triangle_roots' = roots_list_' \o kappa_roots_
    /\ pc' = "update_theta_root"
    /\ UNCHANGED <<N, phi_, kappa_roots_, kappa_total,
                   combined_values_of_data_triangle,
                   pva_array, pva_length, DT_df, PVA_Mods, PVA_Mods_df,
                   alpha_roots_pre_pivot, alpha_roots_post_pivot,
                   combined_alpha_roots, alpha_roots_df, alpha_values,
                   alpha_phorms_dataframe>>
    /\ UNCHANGED transformer_vars
    /\ UNCHANGED previous_N
    /\ UNCHANGED script_vars

\* one cascade step: look `from` up, raise when it is missing, store |diff| under `to`
CascadeStep(roots, from, to) ==
    SetRoot(roots, to, AbsDiff(roots[RootIndex(roots, from)].array))

\* Steps 6, 7, 8
UpdateRoot(step, from, to, next) ==
    /\ pc = step
    /\ IF RootIndex(data_triangle_roots, from) = 0
       THEN /\ pc' = "ValueError"
            /\ UNCHANGED data_triangle_roots
       ELSE /\ data_triangle_roots' = CascadeStep(data_triangle_roots, from, to)
            /\ pc' = next
    /\ UNCHANGED <<N, phi_, roots_list_, kappa_roots_, kappa_total,
                   combined_values_of_data_triangle,
                   pva_array, pva_length, DT_df, PVA_Mods, PVA_Mods_df,
                   alpha_roots_pre_pivot, alpha_roots_post_pivot,
                   combined_alpha_roots, alpha_roots_df, alpha_values,
                   alpha_phorms_dataframe>>
    /\ UNCHANGED transformer_vars
    /\ UNCHANGED previous_N
    /\ UNCHANGED script_vars

update_theta_root ==
    UpdateRoot("update_theta_root", "chi_root", "theta_root", "update_lambda_root")

update_lambda_root ==
    UpdateRoot("update_lambda_root", "theta_root", "lambda_root", "update_epsilon_root")

update_epsilon_root ==
    UpdateRoot("update_epsilon_root", "lambda_root", "epsilon_root", "update_kappa_roots")

RECURSIVE KappaLoopSkipping(_, _, _)
KappaLoopSkipping(roots, kappa_index, steps) ==
    IF kappa_index >= steps THEN [ok |-> TRUE, roots |-> roots]
    ELSE IF RootIndex(roots, KappaName(kappa_index)) = 0
         THEN KappaLoopSkipping(roots, kappa_index + 1, steps)
         ELSE KappaLoopSkipping(CascadeStep(roots, KappaName(kappa_index),
                                            KappaName(kappa_index + 1)),
                                kappa_index + 1, steps)

\* the loop of update_kappa_roots from kappa_index on; [ok, roots] with ok = FALSE
\* when a kappa is missing (ValueError)
RECURSIVE KappaLoop(_, _, _)
KappaLoop(roots, kappa_index, steps) ==
    IF kappa_index >= steps THEN [ok |-> TRUE, roots |-> roots]
    ELSE IF RootIndex(roots, KappaName(kappa_index)) = 0
         THEN [ok |-> FALSE, roots |-> roots]
         ELSE KappaLoop(CascadeStep(roots, KappaName(kappa_index),
                                    KappaName(kappa_index + 1)),
                        kappa_index + 1, steps)

\* Step 9
update_kappa_roots ==
    /\ pc = "update_kappa_roots"
    /\ IF RootIndex(data_triangle_roots, "epsilon_root") = 0
       THEN /\ pc' = "ValueError"
            /\ UNCHANGED data_triangle_roots
       ELSE LET first == CascadeStep(data_triangle_roots, "epsilon_root", KappaName(0))
                loop == KappaLoop(first, 0, KappaSteps(kappa_total))
            IN  /\ data_triangle_roots' = loop.roots
                /\ pc' = IF loop.ok THEN "combine_all_values_DT" ELSE "ValueError"
    /\ UNCHANGED <<N, phi_, roots_list_, kappa_roots_, kappa_total,
                   combined_values_of_data_triangle,
                   pva_array, pva_length, DT_df, PVA_Mods, PVA_Mods_df,
                   alpha_roots_pre_pivot, alpha_roots_post_pivot,
                   combined_alpha_roots, alpha_roots_df, alpha_values,
                   alpha_phorms_dataframe>>
    /\ UNCHANGED transformer_vars
    /\ UNCHANGED previous_N
    /\ UNCHANGED script_vars

(***************************************************************************)
(* Ordered dicts and the padded table.                                     *)
(***************************************************************************)
Item(key, value) == [key |-> key, value |-> value]

KeyIndex(d, key) ==
    IF \E i \in 1..Len(d) : d[i].key = key
    THEN CHOOSE i \in 1..Len(d) : d[i].key = key
    ELSE 0

\* d[key] = value: an existing key keeps its place, a new key goes last
DictSet(d, key, value) ==
    IF KeyIndex(d, key) = 0 THEN Append(d, Item(key, value))
    ELSE [d EXCEPT ![KeyIndex(d, key)] = Item(key, value)]

\* max(len(array) for _, array in roots)
RECURSIVE MaxLength(_)
MaxLength(roots) ==
    IF Len(roots) = 1 THEN Len(roots[1].array)
    ELSE Max(Len(roots[1].array), MaxLength(Tail(roots)))

\* np.pad with its default fill value
PadZero(array, n) == array \o [i \in 1..(n - Len(array)) |-> 0]

\* np.pad(array, (0, n - len(array)), constant_values=-99)
Pad(array, n) == array \o [i \in 1..(n - Len(array)) |-> SENTINEL]

\* {name: np.pad(...) for name, array in roots}
RECURSIVE PaddedFrom(_, _, _)
PaddedFrom(roots, n, acc) ==
    IF roots = <<>> THEN acc
    ELSE PaddedFrom(Tail(roots), n,
                    DictSet(acc, roots[1].name, Pad(roots[1].array, n)))

PaddedData(roots) == PaddedFrom(roots, MaxLength(roots), <<>>)

\* a padding value taken from the digit range
NotNine(v) == v # MaxDigitValue

NotSentinel(v) == v # SENTINEL

\* the two loops swapped: for name in padded_data: for row_index in range(max_length)
VisitOrderColumnMajor(padded, max_length) ==
    [k \in 1..(max_length * Len(padded)) |->
        padded[((k - 1) \div max_length) + 1].value[((k - 1) % max_length) + 1]]

\* the cells of the padded table in the order the two nested loops visit them:
\* for row_index in range(max_length): for name in padded_data
VisitOrder(padded, max_length) ==
    [k \in 1..(max_length * Len(padded)) |->
        padded[((k - 1) % Len(padded)) + 1].value[((k - 1) \div Len(padded)) + 1]]

\* combine_all_values_DT
CombineAllValues(roots) ==
    SelectSeq(VisitOrder(PaddedData(roots), MaxLength(roots)), NotSentinel)

\* the two comparisons swapped
TrendCodeSwapped(a, b) == IF b > a THEN 0 ELSE IF b < a THEN 1 ELSE 2

\* the code create_pva_array appends for the pair (a, b) = (flat[i], flat[i+1])
TrendCode(a, b) == IF b > a THEN 1 ELSE IF b < a THEN 0 ELSE 2

\* the trend codes without the final 3
PvaArrayUnterminated(flat) ==
    [i \in 1..(Len(flat) - 1) |-> TrendCode(flat[i], flat[i + 1])]

\* create_pva_array
PvaArray(flat) ==
    [i \in 1..(Len(flat) - 1) |-> TrendCode(flat[i], flat[i + 1])] \o <<3>>

\* pd.DataFrame(padded_data): one column per key, row i holds padded[name][i]
DataFrameOfColumns(padded, max_length) ==
    [columns |-> [c \in 1..Len(padded) |-> padded[c].key],
     values  |-> [r \in 1..max_length |->
                    [c \in 1..Len(padded) |-> padded[c].value[r]]]]

\* the inner loop of create_PVA_Mods: n cells from the cursor on
RECURSIVE FillRow(_, _, _, _)
FillRow(pva, n, cursor, row) ==
    IF n = 0 THEN [row |-> row, cursor |-> cursor]
    ELSE FillRow(pva, n - 1, (cursor + 1) % Len(pva), Append(row, pva[cursor + 1]))

\* the outer loop of create_PVA_Mods
RECURSIVE FillRows(_, _, _, _, _)
FillRows(pva, n, count, cursor, rows) ==
    IF count = 0 THEN rows
    ELSE FillRows(pva, n, count - 1, FillRow(pva, n, cursor, <<>>).cursor,
                  Append(rows, FillRow(pva, n, cursor, <<>>).row))

\* the cursor started again at 0 for every row
PVAModsRestarted(pva, n) == [i \in 1..n |-> FillRow(pva, n, 0, <<>>).row]

\* create_PVA_Mods
PVAModsOf(pva, n) == FillRows(pva, n, n, 0, <<>>)

PVModLabel(i) == "alpha_" \o ToString(i) \o "_PV_mod"

AlphaRootLabel(i) == "alpha_root_" \o ToString(i)

AlphaLabel(i) == "alpha_" \o ToString(i)

\* Step 10
combine_all_values_DT ==
    /\ pc = "combine_all_values_DT"
    /\ combined_values_of_data_triangle' = CombineAllValues(data_triangle_roots)
    /\ pc' = "create_pva_array"
    /\ UNCHANGED <<N, phi_, roots_list_, kappa_roots_, kappa_total,
                   data_triangle_roots,
                   pva_array, pva_length, DT_df, PVA_Mods, PVA_Mods_df,
                   alpha_roots_pre_pivot, alpha_roots_post_pivot,
                   combined_alpha_roots, alpha_roots_df, alpha_values,
                   alpha_phorms_dataframe>>
    /\ UNCHANGED transformer_vars
    /\ UNCHANGED previous_N
    /\ UNCHANGED script_vars

\* Step 11
create_pva_array ==
    /\ pc = "create_pva_array"
    /\ pva_array' = PvaArray(combined_values_of_data_triangle)
    /\ pva_length' = Len(pva_array')
    /\ pc' = "create_DT_dataframe"
    /\ UNCHANGED <<N, phi_, roots_list_, kappa_roots_, kappa_total,
                   data_triangle_roots, combined_values_of_data_triangle,
                   DT_df, PVA_Mods, PVA_Mods_df,
                   alpha_roots_pre_pivot, alpha_roots_post_pivot,
                   combined_alpha_roots, alpha_roots_df, alpha_values,
                   alpha_phorms_dataframe>>
    /\ UNCHANGED transformer_vars
    /\ UNCHANGED previous_N
    /\ UNCHANGED script_vars

\* Step 12
create_DT_dataframe ==
    /\ pc = "create_DT_dataframe"
    /\ DT_df' = DataFrameOfColumns(PaddedData(data_triangle_roots),
                                   MaxLength(data_triangle_roots))
    /\ pc' = "create_PVA_Mods"
    /\ UNCHANGED <<N, phi_, roots_list_, kappa_roots_, kappa_total,
                   data_triangle_roots, combined_values_of_data_triangle,
                   pva_array, pva_length, PVA_Mods, PVA_Mods_df,
                   alpha_roots_pre_pivot, alpha_roots_post_pivot,
                   combined_alpha_roots, alpha_roots_df, alpha_values,
                   alpha_phorms_dataframe>>
    /\ UNCHANGED transformer_vars
    /\ UNCHANGED previous_N
    /\ UNCHANGED script_vars

\* Step 13
create_PVA_Mods ==
    /\ pc = "create_PVA_Mods"
    /\ IF pva_array = None
       THEN /\ pc' = "ValueError"
            /\ UNCHANGED PVA_Mods
       ELSE /\ PVA_Mods' = PVAModsOf(pva_array, N)
            /\ pc' = "create_PVA_Mods_dataframe"
    /\ UNCHANGED <<N, phi_, roots_list_, kappa_roots_, kappa_total,
                   data_triangle_roots, combined_values_of_data_triangle,
                   pva_array, pva_length, DT_df, PVA_Mods_df,
                   alpha_roots_pre_pivot, alpha_roots_post_pivot,
                   combined_alpha_roots, alpha_roots_df, alpha_values,
                   alpha_phorms_dataframe>>
    /\ UNCHANGED transformer_vars
    /\ UNCHANGED previous_N
    /\ UNCHANGED script_vars

\* Step 14
create_PVA_Mods_dataframe ==
    /\ pc = "create_PVA_Mods_dataframe"
    /\ PVA_Mods_df' = [index  |-> [i \in 1..Len(PVA_Mods) |-> PVModLabel(i - 1)],
                       values |-> PVA_Mods]
    /\ pc' = "create_alpha_roots_rows"
    /\ UNCHANGED <<N, phi_, roots_list_, kappa_roots_, kappa_total,
                   data_triangle_roots, combined_values_of_data_triangle,
                   pva_array, pva_length, DT_df, PVA_Mods,
                   alpha_roots_pre_pivot, alpha_roots_post_pivot,
                   combined_alpha_roots, alpha_roots_df, alpha_values,
                   alpha_phorms_dataframe>>
    /\ UNCHANGED transformer_vars
    /\ UNCHANGED previous_N
    /\ UNCHANGED script_vars

(***************************************************************************)
(* Alpha roots.                                                            *)
(***************************************************************************)
\* one row short: DT_df.iloc[0:(n - 4)]
RowKindCountShort(df, n) == Max(0, Min(n - 4, Len(df.values)))

\* number of rows that DT_df.iloc[0:(n - 3)] selects
RowKindCount(df, n) == Max(0, Min(n - 3, Len(df.values)))

\* the columns of the table taken where its rows are meant
OutputColumns(df, n) ==
    [r \in 1..RowKindCount(df, n) |->
        SelectSeq([k \in 1..Len(df.values) |-> df.values[k][r]], NotSentinel)]

\* [row[row != -99] for row in self.DT_df.iloc[0:(self.N - 3)].values]
OutputRows(df, n) ==
    [r \in 1..RowKindCount(df, n) |-> SelectSeq(df.values[r], NotSentinel)]

\* the diagonals started one column early, at lambda_root
LambdaIndex(df) ==
    (CHOOSE c \in 1..Len(df.columns) : df.columns[c] = "lambda_root") - 1

\* self.DT_df.columns.get_loc("epsilon_root"), as the 0-based position
EpsilonIndex(df) ==
    (CHOOSE c \in 1..Len(df.columns) : df.columns[c] = "epsilon_root") - 1

\* the reversal left out
NotReversed(s) == s

\* anti_diagonal[::-1]
Reverse(s) == [i \in 1..Len(s) |-> s[Len(s) + 1 - i]]

\* [DT_df.iloc[i, col_index - i] for i in range(min(num_rows, col_index + 1))]
AntiDiagonal(df, col_index) ==
    [k \in 1..Min(Len(df.values), col_index + 1) |->
        df.values[k][col_index - (k - 1) + 1]]

\* the loop of create_alpha_roots_post_pivot from col_index on
RECURSIVE PostPivotFrom(_, _, _, _)
PostPivotFrom(df, col_index, start_index, acc) ==
    IF col_index >= Len(df.columns) THEN acc
    ELSE PostPivotFrom(df, col_index + 1, start_index + 1,
                       DictSet(acc, AlphaLabel(start_index),
                               Reverse(AntiDiagonal(df, col_index))))

PostPivot(df, pre) == PostPivotFrom(df, EpsilonIndex(df), Len(pre), <<>>)

\* the first loop of combine_alpha_roots
RECURSIVE CombineRows(_, _, _)
CombineRows(rows, i, acc) ==
    IF i >= Len(rows) THEN acc
    ELSE CombineRows(rows, i + 1, DictSet(acc, AlphaRootLabel(i), rows[i + 1]))

\* the second loop of combine_alpha_roots
RECURSIVE CombinePost(_, _, _)
CombinePost(post, offset, acc) ==
    IF post = <<>> THEN acc
    ELSE CombinePost(Tail(post), offset + 1,
                     DictSet(acc, AlphaRootLabel(offset), post[1].value))

\* self.combined_alpha_roots = {} left out: the loops write into the old dict
CombineAlphaRootsKeeping(pre, post) ==
    CombinePost(post, Len(pre), CombineRows(pre, 0, combined_alpha_roots))

CombineAlphaRoots(pre, post) ==
    CombinePost(post, Len(pre), CombineRows(pre, 0, <<>>))

RECURSIVE MaxLen(_)
MaxLen(d) == IF d = <<>> THEN 0 ELSE Max(Len(d[1].value), MaxLen(Tail(d)))

\* pd.DataFrame.from_dict(d, orient='index').fillna(-99).astype(int)
DataFrameOfRows(d) ==
    [index  |-> [i \in 1..Len(d) |-> d[i].key],
     values |-> [i \in 1..Len(d) |-> Pad(d[i].value, MaxLen(d))]]

\* Step 15
create_alpha_roots_rows ==
    /\ pc = "create_alpha_roots_rows"
    /\ alpha_roots_pre_pivot' = OutputRows(DT_df, N)
    /\ pc' = "create_alpha_roots_post_pivot"
    /\ UNCHANGED <<N, phi_, roots_list_, kappa_roots_, kappa_total,
                   data_triangle_roots, combined_values_of_data_triangle,
                   pva_array, pva_length, DT_df, PVA_Mods, PVA_Mods_df,
                   alpha_roots_post_pivot, combined_alpha_roots,
                   alpha_roots_df, alpha_values, alpha_phorms_dataframe>>
    /\ UNCHANGED transformer_vars
    /\ UNCHANGED previous_N
    /\ UNCHANGED script_vars

\* Step 16
create_alpha_roots_post_pivot ==
    /\ pc = "create_alpha_roots_post_pivot"
    /\ alpha_roots_post_pivot' = PostPivot(DT_df, alpha_roots_pre_pivot)
    /\ pc' = "combine_alpha_roots"
    /\ UNCHANGED <<N, phi_, roots_list_, kappa_roots_, kappa_total,
                   data_triangle_roots, combined_values_of_data_triangle,
                   pva_array, pva_length, DT_df, PVA_Mods, PVA_Mods_df,
                   alpha_roots_pre_pivot, combined_alpha_roots,
                   alpha_roots_df, alpha_values, alpha_phorms_dataframe>>
    /\ UNCHANGED transformer_vars
    /\ UNCHANGED previous_N
    /\ UNCHANGED script_vars

\* Step 17
combine_alpha_roots ==
    /\ pc = "combine_alpha_roots"
    /\ combined_alpha_roots' =
            CombineAlphaRoots(alpha_roots_pre_pivot, alpha_roots_post_pivot)
    /\ pc' = "create_alpha_roots_dataframe"
    /\ UNCHANGED <<N, phi_, roots_list_, kappa_roots_, kappa_total,
                   data_triangle_roots, combined_values_of_data_triangle,
                   pva_array, pva_length, DT_df, PVA_Mods, PVA_Mods_df,
                   alpha_roots_pre_pivot, alpha_roots_post_pivot,
                   alpha_roots_df, alpha_values, alpha_phorms_dataframe>>
    /\ UNCHANGED transformer_vars
    /\ UNCHANGED previous_N
    /\ UNCHANGED script_vars

\* Step 18
create_alpha_roots_dataframe ==
    /\ pc = "create_alpha_roots_dataframe"
    /\ alpha_roots_df' = DataFrameOfRows(combined_alpha_roots)
    /\ pc' = "create_alpha"
    /\ UNCHANGED <<N, phi_, roots_list_, kappa_roots_, kappa_total,
                   data_triangle_roots, combined_values_of_data_triangle,
                   pva_array, pva_length, DT_df, PVA_Mods, PVA_Mods_df,
                   alpha_roots_pre_pivot, alpha_roots_post_pivot,
                   combined_alpha_roots, alpha_values,
                   alpha_phorms_dataframe>>
    /\ UNCHANGED transformer_vars
    /\ UNCHANGED previous_N
    /\ UNCHANGED script_vars

(***************************************************************************)
(* Alpha records.                                                          *)
(***************************************************************************)
RECURSIVE Sum(_)
Sum(s) == IF s = <<>> THEN 0 ELSE s[1] + Sum(Tail(s))

\* row.iloc[:4]
FirstFour(row) == SubSeq(row, 1, Min(4, Len(row)))

\* row.iloc[3:]
FromColumnThree(row) == SubSeq(row, 4, Len(row))

\* row.iloc[4:]
FromColumnFour(row) == SubSeq(row, 5, Len(row))

\* row.iloc[4:] with the padding kept
UnfilteredRepeaterValues(row) == FromColumnFour(row)

\* row.iloc[4:][row.iloc[4:] != -99]
ValidRepeaterValues(row) == SelectSeq(FromColumnFour(row), NotSentinel)

\* int(valid_repeater_values.sum())
RepeaterSum(row) == Sum(ValidRepeaterValues(row))

\* an empty pool
NoRepeaterValues(df) == {}

\* alpha_roots_df.iloc[:, 4:].replace(-99, nan).stack().dropna(): the values drawn from
AllRepeaterValues(df) ==
    UNION {{ValidRepeaterValues(df.values[i])[k] :
                k \in 1..Len(ValidRepeaterValues(df.values[i]))} :
           i \in 1..Len(df.values)}

\* the label of the matrix row before
AdjustedIndexPrevious(df, label) ==
    PVModLabel((CHOOSE i \in 0..Len(df.index) : label = AlphaRootLabel(i)) - 1)

\* the label of the next matrix row
AdjustedIndexShifted(df, label) ==
    PVModLabel((CHOOSE i \in 0..Len(df.index) : label = AlphaRootLabel(i)) + 1)

\* index.replace("alpha_root", "alpha") + "_PV_mod"
AdjustedIndex(df, label) ==
    PVModLabel(CHOOSE i \in 0..Len(df.index) : label = AlphaRootLabel(i))

\* position of `label` among the row labels of df, 0 when it is not one
LabelIndex(df, label) ==
    LET rows == {i \in 1..Len(df.index) : df.index[i] = label}
    IN  IF rows = {} THEN 0 ELSE CHOOSE i \in rows : TRUE

\* the records that take the random pool draw: Repeater == 0 after the sum
ZeroSumRecords(df) == {i \in 1..Len(df.values) : RepeaterSum(df.values[i]) = 0}

\* the records that take the random row sample: adjusted_index not in PVA_Mods_df.index
SampledRecords(df, mods) ==
    {i \in 1..Len(df.values) : LabelIndex(mods, AdjustedIndex(df, df.index[i])) = 0}

\* the outcomes of np.random.choice(all_repeater_values), one per drawing record
RepeaterDraws(df) ==
    IF AllRepeaterValues(df) = {} THEN {[i \in ZeroSumRecords(df) |-> -1]}
    ELSE [ZeroSumRecords(df) -> AllRepeaterValues(df)]

\* the outcomes of PVA_Mods_df.sample(n=1), one row position per sampling record
SampleDraws(df, mods) == [SampledRecords(df, mods) -> 1..Len(mods.values)]

\* Repeater of record i
RepeaterOf(df, i, draw) ==
    LET Repeater == RepeaterSum(df.values[i])
    IN  IF Repeater = 0 THEN draw[i] ELSE Repeater

\* Alpha_PV_Mod of record i
PVModOf(df, mods, i, sample) ==
    LET row == LabelIndex(mods, AdjustedIndex(df, df.index[i]))
    IN  IF row # 0 THEN mods.values[row] ELSE mods.values[sample[i]]

AlphaRecord(df, mods, i, draw, sample) ==
    [A_Root       |-> FirstFour(df.values[i]),
     A_Root_Copy  |-> FirstFour(df.values[i]),
     Alpha_PV_Mod |-> PVModOf(df, mods, i, sample),
     Repeater     |-> RepeaterOf(df, i, draw)]

\* the loop of create_alpha over alpha_roots_df.iterrows(), from row i on
RECURSIVE AlphaValuesFrom(_, _, _, _, _, _)
AlphaValuesFrom(df, mods, i, draw, sample, acc) ==
    IF i > Len(df.values) THEN acc
    ELSE AlphaValuesFrom(df, mods, i + 1, draw, sample,
                         DictSet(acc, df.index[i],
                                 AlphaRecord(df, mods, i, draw, sample)))

\* Step 19
create_alpha ==
    /\ pc = "create_alpha"
    /\ \E draw \in RepeaterDraws(alpha_roots_df) :
       \E sample \in SampleDraws(alpha_roots_df, PVA_Mods_df) :
            alpha_values' =
                AlphaValuesFrom(alpha_roots_df, PVA_Mods_df, 1, draw, sample, <<>>)
    /\ pc' = "create_alpha_phorms_dataframe"
    /\ UNCHANGED <<N, phi_, roots_list_, kappa_roots_, kappa_total,
                   data_triangle_roots, combined_values_of_data_triangle,
                   pva_array, pva_length, DT_df, PVA_Mods, PVA_Mods_df,
                   alpha_roots_pre_pivot, alpha_roots_post_pivot,
                   combined_alpha_roots, alpha_roots_df,
                   alpha_phorms_dataframe>>
    /\ UNCHANGED transformer_vars
    /\ UNCHANGED previous_N
    /\ UNCHANGED script_vars

\* Step 20, then run_pipeline returns get_alpha_data()
create_alpha_phorms_dataframe ==
    /\ pc = "create_alpha_phorms_dataframe"
    /\ alpha_phorms_dataframe' =
            [index  |-> [i \in 1..Len(alpha_values) |-> alpha_values[i].key],
             values |-> [i \in 1..Len(alpha_values) |-> alpha_values[i].value]]
    /\ pc' = "returned"
    /\ UNCHANGED <<N, phi_, roots_list_, kappa_roots_, kappa_total,
                   data_triangle_roots, combined_values_of_data_triangle,
                   pva_array, pva_length, DT_df, PVA_Mods, PVA_Mods_df,
                   alpha_roots_pre_pivot, alpha_roots_post_pivot,
                   combined_alpha_roots, alpha_roots_df, alpha_values>>
    /\ UNCHANGED transformer_vars
    /\ UNCHANGED previous_N
    /\ UNCHANGED script_vars

(***************************************************************************)
(* phorms_mod_table.py: the Phorms Mod Table versions.                     *)
(***************************************************************************)
Versions ==
    { "default", "increment", "custom", "chromatic", "rhythmic", "harmonic",
      "modal", "octave" }

\* the version names a caller may pass: the known ones and one other string
VersionNames == Versions \cup { "lydian" }

ModTableKeysShort(version) ==
    IF version = "octave" THEN <<0, 1, 2>> ELSE <<0, 1, 2, 3>>

\* the keys of the dictionary literal of each version, in the order written
ModTableKeys(version) ==
    CASE version = "default"   -> <<0, 1, 2, 3>>
      [] version = "increment" -> <<0, 1, 2, 3>>
      [] version = "custom"    -> <<0, 1, 2, 3>>
      [] version = "chromatic" -> <<0, 1, 2, 3>>
      [] version = "rhythmic"  -> <<0, 1, 2, 3>>
      [] version = "harmonic"  -> <<0, 1, 2, 3>>
      [] version = "modal"     -> <<0, 1, 2, 3>>
      [] version = "octave"    -> <<0, 1, 2, 3>>

\* [0,2,4,5,7,9,11][i], [0,2,3,5,7,8,10][i], [0,1,3,5,7,8,10][i]
Ionian(i) == <<0, 2, 4, 5, 7, 9, 11>>[i + 1]

Aeolian(i) == <<0, 2, 3, 5, 7, 8, 10>>[i + 1]

Phrygian(i) == <<0, 1, 3, 5, 7, 8, 10>>[i + 1]

\* the lambda stored under key in the version's dictionary, applied to x
Transformation(version, key, x) ==
    CASE version = "default" ->
            ( CASE key = 0 -> x - 1
                [] key = 1 -> x + 1
                [] key = 2 -> x + 2
                [] key = 3 -> x + 3 )
      [] version = "increment" ->
            ( CASE key = 0 -> x + 0
                [] key = 1 -> x + 2
                [] key = 2 -> x + 4
                [] key = 3 -> x + 6 )
      [] version = "custom" ->
            ( CASE key = 0 -> x * 2
                [] key = 1 -> x * x
                [] key = 2 -> x - 3
                [] key = 3 -> x + 5 )
      [] version = "chromatic" ->
            ( CASE key = 0 -> x % 12
                [] key = 1 -> (x + 7) % 12
                [] key = 2 -> (x + 4) % 12
                [] key = 3 -> (x + 3) % 12 )
      [] version = "rhythmic" ->
            ( CASE key = 0 -> x % 8
                [] key = 1 -> (x * 2) % 8
                [] key = 2 -> Max(1, x \div 2)
                [] key = 3 -> ((x + 1) % 8) + 1 )
      [] version = "harmonic" ->
            ( CASE key = 0 -> x % 12
                [] key = 1 -> (x + 4) % 12
                [] key = 2 -> (x + 7) % 12
                [] key = 3 -> (x + 10) % 12 )
      [] version = "modal" ->
            ( CASE key = 0 -> x % 7
                [] key = 1 -> Ionian(x % 7)
                [] key = 2 -> Aeolian(x % 7)
                [] key = 3 -> Phrygian(x % 7) )
      [] version = "octave" ->
            ( CASE key = 0 -> x % 8
                [] key = 1 -> Min(7, x + 1)
                [] key = 2 -> Max(0, x - 1)
                [] key = 3 -> 7 - (x % 8) )

\* the DataFrame built from the dictionary: its index and, by the version
\* name, its Transformation column
phorms_mod_table(version) ==
    [index |-> ModTableKeys(version), version |-> version]

(***************************************************************************)
(* alpha_transformer.py: AlphaTransformer.                                 *)
(***************************************************************************)
\* the generator's fields
enki_vars_but_pc ==
    <<N, phi_, roots_list_, kappa_roots_, kappa_total,
      data_triangle_roots, combined_values_of_data_triangle,
      pva_array, pva_length, DT_df, PVA_Mods, PVA_Mods_df,
      alpha_roots_pre_pivot, alpha_roots_post_pivot,
      combined_alpha_roots, alpha_roots_df, alpha_values,
      alpha_phorms_dataframe, previous_N>>

enki_vars ==
    <<pc, N, phi_, roots_list_, kappa_roots_, kappa_total,
      data_triangle_roots, combined_values_of_data_triangle,
      pva_array, pva_length, DT_df, PVA_Mods, PVA_Mods_df,
      alpha_roots_pre_pivot, alpha_roots_post_pivot,
      combined_alpha_roots, alpha_roots_df, alpha_values,
      alpha_phorms_dataframe, previous_N>>

\* the max_value arguments: the default, the same number as a float, and a
\* smaller native int
MaxValues ==
    { NativeInt(DefaultMaxValue), Float(DefaultMaxValue),
      NativeInt(DefaultMaxValue \div 2) }

\* __init__: a new transformer of the given version, nothing loaded or stored
AlphaTransformer ==
    /\ pc = "returned"
    /\ N # 0
    /\ \E version \in VersionNames : mod_table_version' = version
    /\ phorms_mod_table_df' = None
    /\ transphormed_alpha_dataframe' = None
    /\ transformer_result' = "constructed"
    /\ records_transformed' = 0
    /\ loop_max_value' = NativeInt(DefaultMaxValue)
    /\ last_call' = "__init__"
    /\ UNCHANGED enki_vars
    /\ UNCHANGED script_vars

LoadDefaultTable(version) ==
    [raised |-> FALSE,
     table  |-> phorms_mod_table(IF version \in Versions THEN version
                                                         ELSE "default")]

\* phorms_mod_table(self.mod_table_version): the table, or the ValueError of
\* the else branch
LoadModTable(version) ==
    IF version \in Versions
    THEN [raised |-> FALSE, table |-> phorms_mod_table(version)]
    ELSE [raised |-> TRUE, table |-> None]

\* load_mod_table, called on its own
load_mod_table ==
    /\ transformer_result # "no transformer"
    /\ LET loaded == LoadModTable(mod_table_version)
       IN  IF loaded.raised
           THEN /\ transformer_result' = "ValueError(Unknown version)"
                /\ UNCHANGED phorms_mod_table_df
           ELSE /\ phorms_mod_table_df' = loaded.table
                /\ transformer_result' = "loaded"
    /\ last_call' = "load_mod_table()"
    /\ UNCHANGED <<mod_table_version, transphormed_alpha_dataframe,
                   records_transformed, loop_max_value>>
    /\ UNCHANGED enki_vars
    /\ UNCHANGED script_vars

\* mod in self.phorms_mod_table_df.index
InIndex(table, mod) == \E i \in 1..Len(table.index) : table.index[i] = mod

TransformedRowClamped(table, mod, A_Root_Copy, max_value) ==
    [k \in 1..Len(A_Root_Copy) |->
        LET raw == Transformation(table.version, mod, A_Root_Copy[k])
        IN  NativeInt(Max(0, Min(raw, max_value.value)))]

\* the function result stored without the remainder
TransformedRowUnwrapped(table, mod, A_Root_Copy, max_value) ==
    [k \in 1..Len(A_Root_Copy) |->
        LET raw == Transformation(table.version, mod, A_Root_Copy[k])
        IN  IF raw >= 0 THEN NativeInt(raw) ELSE max_value]

\* the list comprehension over A_Root_Copy for one selector: int(...) of the
\* remainder is a native int, the else branch emits max_value as it was given
TransformedRow(table, mod, A_Root_Copy, max_value) ==
    [k \in 1..Len(A_Root_Copy) |->
        LET raw == Transformation(table.version, mod, A_Root_Copy[k])
        IN  IF raw >= 0
            THEN NativeInt(raw % (max_value.value + 1))
            ELSE max_value]

\* the loop over Alpha_PV_Mod from selector j on
RECURSIVE ModifiedFrom(_, _, _, _, _)
ModifiedFrom(table, record, max_value, j, modified_versions) ==
    IF j > Len(record.Alpha_PV_Mod)
    THEN modified_versions
    ELSE LET mod == record.Alpha_PV_Mod[j]
         IN  ModifiedFrom(table, record, max_value, j + 1,
                 IF InIndex(table, mod)
                 THEN Append(modified_versions,
                             TransformedRow(table, mod, record.A_Root_Copy,
                                            max_value))
                 ELSE modified_versions)

\* modified_versions = [A_Root] followed by the transformed rows
ModifiedVersions(table, record, max_value) ==
    ModifiedFrom(table, record, max_value, 1,
                 << [k \in 1..Len(record.A_Root) |->
                        NativeInt(record.A_Root[k])] >>)

\* list * n: n copies one after another, the empty list when n <= 0
RECURSIVE Times(_, _)
Times(list, n) == IF n <= 0 THEN <<>> ELSE list \o Times(list, n - 1)

RepeatedRowsOnce(modified_versions, Repeater) == modified_versions

RepeatedRows(modified_versions, Repeater) ==
    IF Repeater = 0
    THEN modified_versions
    ELSE Times(modified_versions, Repeater)

ValidateNothing(repeated_rows) == TRUE

\* _validate_structure: every row built above is a list, so what it can
\* reject is an element that is not a native int
_validate_structure(repeated_rows) ==
    \A r \in 1..Len(repeated_rows) :
        \A k \in 1..Len(repeated_rows[r]) : repeated_rows[r][k].native

\* repeated_rows of the record in row i of the dataframe
RepeatedRowsOf(table, df, i, max_value) ==
    RepeatedRows(ModifiedVersions(table, df.values[i], max_value),
                 df.values[i].Repeater)

\* the first record whose rows _validate_structure rejects, 0 when none
FirstInvalid(table, df, max_value) ==
    LET invalid == { i \in 1..Len(df.index) :
                        ~ _validate_structure(
                              RepeatedRowsOf(table, df, i, max_value)) }
    IN  IF invalid = {}
        THEN 0
        ELSE CHOOSE i \in invalid : \A j \in invalid : i <= j

\* f"alpha_phormed_{index.split('_')[-1]}" of a label alpha_root_<n>
PhormedLabel(index) ==
    LET n == CHOOSE n \in 0..(2 * UpperN) : AlphaRootLabel(n) = index
    IN  "alpha_phormed_" \o ToString(n)

\* the rows as stored: validated elements are native ints
StoredRows(repeated_rows) ==
    [r \in 1..Len(repeated_rows) |->
        [k \in 1..Len(repeated_rows[r]) |-> repeated_rows[r][k].value]]

\* DataFrame.from_dict(transformed_data, orient='index')
TransformedDataFrame(table, df, max_value) ==
    [index  |-> [i \in 1..Len(df.index) |-> PhormedLabel(df.index[i])],
     values |-> [i \in 1..Len(df.index) |->
                    StoredRows(RepeatedRowsOf(table, df, i, max_value))]]

\* the transformed row of the last selector written back into A_Root_Copy
RecordTransformedInPlace(table, record, max_value) ==
    LET versions == StoredRows(ModifiedVersions(table, record, max_value))
    IN  [record EXCEPT !.A_Root_Copy = versions[Len(versions)]]

\* the record one pass of the loop leaves behind: the pass reads the four
\* fields into lists and an int of its own (the comprehensions and int() of
\* lines 58-61) and assigns to none of them
RecordAfterIteration(table, record, max_value) ==
    [A_Root       |-> record.A_Root,
     A_Root_Copy  |-> record.A_Root_Copy,
     Alpha_PV_Mod |-> record.Alpha_PV_Mod,
     Repeater     |-> record.Repeater]

\* the caller's dataframe after the loop has passed over its first `passed`
\* records: .copy() gives the loop its own frame, whose cells are the same
\* list objects as the caller's
FrameAfterLoop(table, df, max_value, passed) ==
    [df EXCEPT !.values =
        [i \in 1..Len(df.values) |->
            IF i <= passed
            THEN RecordAfterIteration(table, df.values[i], max_value)
            ELSE df.values[i]]]

\* transform_alpha_dataframe(alpha_phorms_dataframe, max_value): the caller
\* passes the generator's dataframe or None
transform_alpha_dataframe ==
    /\ transformer_result # "no transformer"
    /\ \E data \in {None, alpha_phorms_dataframe} :
       \E max_value \in MaxValues :
            IF data = None
            THEN /\ transformer_result' = "returned None"
                 /\ last_call' = "transform_alpha_dataframe(None)"
                 /\ records_transformed' = 0
                 /\ UNCHANGED <<phorms_mod_table_df,
                                transphormed_alpha_dataframe, loop_max_value,
                                alpha_phorms_dataframe>>
            ELSE LET loaded == IF phorms_mod_table_df = None
                               THEN LoadModTable(mod_table_version)
                               ELSE [raised |-> FALSE,
                                     table  |-> phorms_mod_table_df]
                 IN  /\ last_call' = "transform_alpha_dataframe(df)"
                     /\ IF loaded.raised
                        THEN /\ transformer_result' =
                                    "ValueError(Unknown version)"
                             /\ records_transformed' = 0
                             /\ UNCHANGED <<phorms_mod_table_df,
                                            transphormed_alpha_dataframe,
                                            loop_max_value,
                                            alpha_phorms_dataframe>>
                        ELSE LET invalid == FirstInvalid(loaded.table, data,
                                                         max_value)
                             IN  /\ phorms_mod_table_df' = loaded.table
                                 /\ loop_max_value' = max_value
                                 /\ alpha_phorms_dataframe' =
                                       FrameAfterLoop(
                                           loaded.table, data, max_value,
                                           IF invalid = 0
                                           THEN Len(data.index) ELSE invalid)
                                 /\ IF invalid = 0
                                    THEN /\ transphormed_alpha_dataframe' =
                                              TransformedDataFrame(
                                                  loaded.table, data, max_value)
                                         /\ transformer_result' =
                                              "returned dataframe"
                                         /\ records_transformed' =
                                              Len(data.index)
                                    ELSE /\ transformer_result' =
                                              "ValueError(Invalid data type)"
                                         /\ records_transformed' = invalid
                                         /\ UNCHANGED
                                              transphormed_alpha_dataframe
    /\ UNCHANGED mod_table_version
    /\ UNCHANGED <<pc, N, phi_, roots_list_, kappa_roots_, kappa_total,
                   data_triangle_roots, combined_values_of_data_triangle,
                   pva_array, pva_length, DT_df, PVA_Mods, PVA_Mods_df,
                   alpha_roots_pre_pivot, alpha_roots_post_pivot,
                   combined_alpha_roots, alpha_roots_df, alpha_values,
                   previous_N>>
    /\ UNCHANGED script_vars

Next ==
    \/ Enki_User_Interface
    \/ create_base
    \/ root_arrays
    \/ create_kappa_root_arrays
    \/ create_data_triangle_roots
    \/ update_theta_root
    \/ update_lambda_root
    \/ update_epsilon_root
    \/ update_kappa_roots
    \/ combine_all_values_DT
    \/ create_pva_array
    \/ create_DT_dataframe
    \/ create_PVA_Mods
    \/ create_PVA_Mods_dataframe
    \/ create_alpha_roots_rows
    \/ create_alpha_roots_post_pivot
    \/ combine_alpha_roots
    \/ create_alpha_roots_dataframe
    \/ create_alpha
    \/ create_alpha_phorms_dataframe

Spec == Init /\ [][Next]_vars

(***************************************************************************)
(* Generation from a seed followed by transformers of any version.         *)
(***************************************************************************)
MaxTransformN == 6

TransformSeeds == { WorkedSeed, <<0, 1, 0, 2, 1, 0>> }

\* run_pipeline has confirmed N and drawn the seed
InitTransform ==
    /\ pc = "root_arrays"
    /\ N \in MinN..Min(MaxTransformN, UpperN)
    /\ phi_ \in { Extend(w, N) : w \in TransformSeeds }
    /\ roots_list_ = None
    /\ kappa_roots_ = None
    /\ kappa_total = 0
    /\ data_triangle_roots = None
    /\ combined_values_of_data_triangle = None
    /\ pva_array = None
    /\ pva_length = 0
    /\ DT_df = None
    /\ PVA_Mods = None
    /\ PVA_Mods_df = None
    /\ alpha_roots_pre_pivot = None
    /\ alpha_roots_post_pivot = None
    /\ combined_alpha_roots = None
    /\ alpha_roots_df = None
    /\ alpha_values = None
    /\ alpha_phorms_dataframe = None
    /\ NoTransformer
    /\ previous_N = 0
    /\ NoScript

NextTransform ==
    \/ root_arrays
    \/ create_kappa_root_arrays
    \/ create_data_triangle_roots
    \/ update_theta_root
    \/ update_lambda_root
    \/ update_epsilon_root
    \/ update_kappa_roots
    \/ combine_all_values_DT
    \/ create_pva_array
    \/ create_DT_dataframe
    \/ create_PVA_Mods
    \/ create_PVA_Mods_dataframe
    \/ create_alpha_roots_rows
    \/ create_alpha_roots_post_pivot
    \/ combine_alpha_roots
    \/ create_alpha_roots_dataframe
    \/ create_alpha
    \/ create_alpha_phorms_dataframe
    \/ AlphaTransformer
    \/ load_mod_table
    \/ transform_alpha_dataframe

SpecTransform == InitTransform /\ [][NextTransform]_vars

(***************************************************************************)
(* Positions of run_pipeline.                                              *)
(***************************************************************************)
Steps ==
    << "Enki_User_Interface", "create_base", "root_arrays",
       "create_kappa_root_arrays", "create_data_triangle_roots",
       "update_theta_root", "update_lambda_root", "update_epsilon_root",
       "update_kappa_roots", "combine_all_values_DT", "create_pva_array",
       "create_DT_dataframe", "create_PVA_Mods", "create_PVA_Mods_dataframe",
       "create_alpha_roots_rows", "create_alpha_roots_post_pivot",
       "combine_alpha_roots", "create_alpha_roots_dataframe", "create_alpha",
       "create_alpha_phorms_dataframe", "returned" >>

StepNo(p) == CHOOSE i \in 1..Len(Steps) : Steps[i] = p

\* the run has an N and has completed `step`
After(step) == /\ N # 0
               /\ pc # "ValueError"
               /\ StepNo(pc) > StepNo(step)

\* the declared name of the k-th named sequence, k from 0
DeclaredName(k) ==
    CASE k = 0 -> "chi_root"
      [] k = 1 -> "theta_root"
      [] k = 2 -> "lambda_root"
      [] k = 3 -> "epsilon_root"
      [] OTHER -> "kappa_root_" \o ToString(k - 4)

(***************************************************************************)
(* The cascade steps over a collection a caller has taken entries out of.  *)
(***************************************************************************)
\* the list create_data_triangle_roots builds for n and the seed
DeclaredRoots(n, seed) ==
    [k \in 1..n |-> Root(DeclaredName(k - 1), IF k = 1 THEN seed ELSE <<>>)]

\* the list without the entries whose names are in dropped
Without(roots, dropped) ==
    SelectSeq(roots, LAMBDA root : root.name \notin dropped)

\* create_data_triangle_roots has returned the collection and the caller has
\* removed some of its entries
InitMissing ==
    /\ pc = "update_theta_root"
    /\ N \in MinN..Min(MaxN, UpperN)
    /\ phi_ \in { Extend(w, N) : w \in TransformSeeds }
    /\ roots_list_ = SubSeq(DeclaredRoots(N, phi_), 1, 4)
    /\ kappa_roots_ = SubSeq(DeclaredRoots(N, phi_), 5, N)
    /\ kappa_total = KappaTotal(N)
    /\ \E dropped \in SUBSET { DeclaredName(k) : k \in 0..(N - 1) } :
          data_triangle_roots = Without(DeclaredRoots(N, phi_), dropped)
    /\ combined_values_of_data_triangle = None
    /\ pva_array = None
    /\ pva_length = 0
    /\ DT_df = None
    /\ PVA_Mods = None
    /\ PVA_Mods_df = None
    /\ alpha_roots_pre_pivot = None
    /\ alpha_roots_post_pivot = None
    /\ combined_alpha_roots = None
    /\ alpha_roots_df = None
    /\ alpha_values = None
    /\ alpha_phorms_dataframe = None
    /\ NoTransformer
    /\ previous_N = 0
    /\ NoScript

NextMissing ==
    \/ update_theta_root
    \/ update_lambda_root
    \/ update_epsilon_root
    \/ update_kappa_roots

SpecMissing == InitMissing /\ [][NextMissing]_vars

(***************************************************************************)
(* run_pipeline called a second time on the same Enki_V3 instance.         *)
(***************************************************************************)
RerunSeeds == { WorkedSeed }

\* the first run_pipeline on a new instance has confirmed N and drawn the
\* seed; previous_N = 0: no earlier run
InitRerun ==
    /\ pc = "root_arrays"
    /\ N \in { MinN, MinN + 1 }
    /\ phi_ \in { Extend(w, N) : w \in RerunSeeds }
    /\ roots_list_ = None
    /\ kappa_roots_ = None
    /\ kappa_total = 0
    /\ data_triangle_roots = None
    /\ combined_values_of_data_triangle = None
    /\ pva_array = None
    /\ pva_length = 0
    /\ DT_df = None
    /\ PVA_Mods = None
    /\ PVA_Mods_df = None
    /\ alpha_roots_pre_pivot = None
    /\ alpha_roots_post_pivot = None
    /\ combined_alpha_roots = None
    /\ alpha_roots_df = None
    /\ alpha_values = None
    /\ alpha_phorms_dataframe = None
    /\ NoTransformer
    /\ previous_N = 0
    /\ NoScript

\* run_pipeline is called again after it returned: steps 1 and 2 assign N
\* and phi_, every other field still holds what the first run left
run_pipeline_again ==
    /\ pc = "returned"
    /\ N # 0
    /\ previous_N = 0
    /\ previous_N' = N
    /\ \E n \in MinN..Min(MaxN, UpperN) :
       \E w \in RerunSeeds :
            /\ N' = n
            /\ phi_' = Extend(w, n)
    /\ pc' = "root_arrays"
    /\ UNCHANGED <<roots_list_, kappa_roots_, kappa_total,
                   data_triangle_roots, combined_values_of_data_triangle,
                   pva_array, pva_length, DT_df, PVA_Mods, PVA_Mods_df,
                   alpha_roots_pre_pivot, alpha_roots_post_pivot,
                   combined_alpha_roots, alpha_roots_df, alpha_values,
                   alpha_phorms_dataframe>>
    /\ UNCHANGED transformer_vars
    /\ UNCHANGED script_vars

NextRerun ==
    \/ root_arrays
    \/ create_kappa_root_arrays
    \/ create_data_triangle_roots
    \/ update_theta_root
    \/ update_lambda_root
    \/ update_epsilon_root
    \/ update_kappa_roots
    \/ combine_all_values_DT
    \/ create_pva_array
    \/ create_DT_dataframe
    \/ create_PVA_Mods
    \/ create_PVA_Mods_dataframe
    \/ create_alpha_roots_rows
    \/ create_alpha_roots_post_pivot
    \/ combine_alpha_roots
    \/ create_alpha_roots_dataframe
    \/ create_alpha
    \/ create_alpha_phorms_dataframe
    \/ run_pipeline_again

SpecRerun == InitRerun /\ [][NextRerun]_vars

(***************************************************************************)
(* The prompts of Enki_User_Interface (enki_class_v2.py 40-70).  A typed    *)
(* line is a sequence of characters; the lines tried are all the lines of  *)
(* at most MaxTyped characters over Keys.                                   *)
(***************************************************************************)
MaxTyped == 2

Keys == {"0", "1", "5", "6", "q", "Q", "y", "-", " "}

\* the lines of at most len characters over keys
RECURSIVE LinesOf(_, _)
LinesOf(keys, len) ==
    IF len = 0 THEN {<<>>}
    ELSE LinesOf(keys, len - 1)
         \cup {Append(line, c) :
                  line \in {l \in LinesOf(keys, len - 1) : Len(l) = len - 1},
                  c \in keys}

Typed == LinesOf(Keys, MaxTyped)

\* str.strip(): leading and trailing blanks removed
RECURSIVE Strip(_)
Strip(line) ==
    IF line = <<>> THEN <<>>
    ELSE IF Head(line) = " " THEN Strip(Tail(line))
    ELSE IF line[Len(line)] = " " THEN Strip(SubSeq(line, 1, Len(line) - 1))
    ELSE line

\* str.lower(), on the capital letters the typed lines contain
Lower(line) ==
    [k \in 1..Len(line) |->
        CASE line[k] = "Q" -> "q"
          [] line[k] = "Y" -> "y"
          [] line[k] = "A" -> "a"
          [] line[k] = "L" -> "l"
          [] line[k] = "E" -> "e"
          [] line[k] = "S" -> "s"
          [] OTHER -> line[k]]

IsDigit(c) == c \in {"0", "1", "2", "3", "4", "5", "6", "7", "8", "9"}

DigitValue(c) ==
    CASE c = "0" -> 0 [] c = "1" -> 1 [] c = "2" -> 2 [] c = "3" -> 3
      [] c = "4" -> 4 [] c = "5" -> 5 [] c = "6" -> 6 [] c = "7" -> 7
      [] c = "8" -> 8 [] c = "9" -> 9

\* the value of a string of decimal digits
RECURSIVE Decimal(_)
Decimal(digits) ==
    IF digits = <<>> THEN 0
    ELSE 10 * Decimal(SubSeq(digits, 1, Len(digits) - 1))
         + DigitValue(digits[Len(digits)])

\* int(text) of a stripped line: an optional sign and one or more digits,
\* anything else raises ValueError
int(text) ==
    LET digits == IF text # <<>> /\ Head(text) = "-" THEN Tail(text) ELSE text
        sign   == IF text # <<>> /\ Head(text) = "-" THEN -1 ELSE 1
    IN  IF digits # <<>> /\ \A k \in 1..Len(digits) : IsDigit(digits[k])
        THEN [raised |-> FALSE, value |-> sign * Decimal(digits)]
        ELSE [raised |-> TRUE, value |-> 0]

\* no upper limit
AtLeastSix(n) == MinN <= n

\* 6 <= n <= 15
InRange(n) == MinN <= n /\ n <= UpperN

\* One input() of get_user_input, called by Enki_User_Interface inside
\* run_pipeline: 'q' returns None, which ends Enki_User_Interface and
\* run_pipeline; an integer in range is returned to Enki_User_Interface, which
\* asks for the confirmation; anything else repeats the prompt
get_user_input ==
    /\ pc = "get_user_input"
    /\ \E typed \in Typed :
         LET text == Lower(Strip(typed))
         IN  /\ user_input' = text
             /\ IF text = <<"q">>
                THEN /\ n_' = 0
                     /\ N' = 0
                     /\ pc' = "returned"
                ELSE IF ~ int(text).raised /\ InRange(int(text).value)
                THEN /\ n_' = int(text).value
                     /\ pc' = "user_response"
                     /\ UNCHANGED N
                ELSE /\ pc' = "get_user_input"
                     /\ UNCHANGED <<n_, N>>
    /\ UNCHANGED <<phi_, roots_list_, kappa_roots_, kappa_total,
                   data_triangle_roots, combined_values_of_data_triangle,
                   pva_array, pva_length, DT_df, PVA_Mods, PVA_Mods_df,
                   alpha_roots_pre_pivot, alpha_roots_post_pivot,
                   combined_alpha_roots, alpha_roots_df, alpha_values,
                   alpha_phorms_dataframe, previous_N>>
    /\ UNCHANGED transformer_vars
    /\ UNCHANGED <<user_response, choice, selected_versions, confirm,
                   selected_mod_tables, mod_table_index, successful_exports,
                   failed_exports, main_result>>

\* The input() of Enki_User_Interface after get_user_input returned n: 'y'
\* returns n to run_pipeline, which stores it in N and goes on to step 2;
\* 'q' and anything else call get_user_input again, which starts without a
\* typed line; the rejected answer is not read again and is not kept
Enki_User_Interface_response ==
    /\ pc = "user_response"
    /\ \E typed \in Typed :
         LET text == Lower(Strip(typed))
         IN  IF text = <<"y">>
             THEN /\ user_response' = text
                  /\ N' = n_
                  /\ pc' = "create_base"
                  /\ UNCHANGED <<user_input, n_>>
             ELSE /\ pc' = "get_user_input"
                  /\ user_input' = None
                  /\ user_response' = None
                  /\ UNCHANGED <<N, n_>>
    /\ UNCHANGED <<phi_, roots_list_, kappa_roots_, kappa_total,
                   data_triangle_roots, combined_values_of_data_triangle,
                   pva_array, pva_length, DT_df, PVA_Mods, PVA_Mods_df,
                   alpha_roots_pre_pivot, alpha_roots_post_pivot,
                   combined_alpha_roots, alpha_roots_df, alpha_values,
                   alpha_phorms_dataframe, previous_N>>
    /\ UNCHANGED transformer_vars
    /\ UNCHANGED <<choice, selected_versions, confirm,
                   selected_mod_tables, mod_table_index, successful_exports,
                   failed_exports, main_result>>

\* run_pipeline from its first prompt to the end of the cascade
InitUI ==
    /\ pc = "get_user_input"
    /\ N = 0
    /\ phi_ = None
    /\ roots_list_ = None
    /\ kappa_roots_ = None
    /\ kappa_total = 0
    /\ data_triangle_roots = None
    /\ combined_values_of_data_triangle = None
    /\ pva_array = None
    /\ pva_length = 0
    /\ DT_df = None
    /\ PVA_Mods = None
    /\ PVA_Mods_df = None
    /\ alpha_roots_pre_pivot = None
    /\ alpha_roots_post_pivot = None
    /\ combined_alpha_roots = None
    /\ alpha_roots_df = None
    /\ alpha_values = None
    /\ alpha_phorms_dataframe = None
    /\ NoTransformer
    /\ previous_N = 0
    /\ NoScript

NextUI ==
    \/ get_user_input
    \/ Enki_User_Interface_response
    \/ create_base
    \/ root_arrays
    \/ create_kappa_root_arrays
    \/ create_data_triangle_roots
    \/ update_theta_root
    \/ update_lambda_root
    \/ update_epsilon_root
    \/ update_kappa_roots

SpecUI == InitUI /\ [][NextUI]_vars

(***************************************************************************)
(* choose_mod_table (enki_pipeline.py 49-169): the prompt for the versions *)
(* and the prompt that confirms them.                                       *)
(***************************************************************************)
\* mod_table_options: the menu keys "1".."8" and the version each one names
mod_table_options ==
    << [key |-> "1", name |-> "default"],
       [key |-> "2", name |-> "increment"],
       [key |-> "3", name |-> "custom"],
       [key |-> "4", name |-> "chromatic"],
       [key |-> "5", name |-> "rhythmic"],
       [key |-> "6", name |-> "harmonic"],
       [key |-> "7", name |-> "modal"],
       [key |-> "8", name |-> "octave"] >>

\* c in mod_table_options, for an entry c of the typed line
InOptions(c) ==
    \E k \in 1..Len(mod_table_options) : c = <<mod_table_options[k].key>>

\* mod_table_options[c]['name']
OptionName(c) ==
    mod_table_options[CHOOSE k \in 1..Len(mod_table_options) :
                          c = <<mod_table_options[k].key>>].name

\* str.split(','): the pieces between the commas, empty pieces included
RECURSIVE Split(_)
Split(line) ==
    LET commas == {k \in 1..Len(line) : line[k] = ","}
    IN  IF commas = {} THEN <<line>>
        ELSE LET first == CHOOSE k \in commas : \A j \in commas : k <= j
             IN  <<SubSeq(line, 1, first - 1)>>
                 \o Split(SubSeq(line, first + 1, Len(line)))

\* [c.strip() for c in choice.split(',')]
Choices(line) == [k \in 1..Len(Split(line)) |-> Strip(Split(line)[k])]

\* the loop over choices from entry k on: a valid entry appends its version
\* name to selected_versions, the first invalid entry breaks out of the loop
RECURSIVE SelectedFrom(_, _, _)
SelectedFrom(choices, k, selected) ==
    IF k > Len(choices) THEN selected
    ELSE IF InOptions(choices[k])
    THEN SelectedFrom(choices, k + 1, Append(selected, OptionName(choices[k])))
    ELSE selected

\* musical_keys
MusicalKeys == <<"4", "5", "6", "7", "8">>

\* selected_versions after one typed line
SelectedVersions(line) ==
    IF line = <<"a", "l", "l">>
    THEN [k \in 1..Len(mod_table_options) |-> mod_table_options[k].name]
    ELSE IF line = <<"m", "u", "s", "i", "c">>
    THEN [k \in 1..Len(MusicalKeys) |-> OptionName(<<MusicalKeys[k]>>)]
    ELSE SelectedFrom(Choices(line), 1, <<>>)

ChoiceKeys == {"4", "8", "9", ",", " "}

\* the lines typed at the first prompt
ChoiceLines ==
    LinesOf(ChoiceKeys, MaxTyped + 1)
    \cup { <<"a", "l", "l">>, <<"A", "L", "L", " ">>,
           <<"m", "u", "s", "i", "c">>, <<"4", ",", "6", ",", "7">>,
           <<"4", ",", "6", ",", "x">>, <<"1", "2">> }

\* the lines typed at the confirmation prompt
ConfirmLines ==
    { <<>>, <<"y">>, <<"Y">>, <<"y", "e", "s">>, <<" ", "y", " ">>,
      <<"n">>, <<"n", "o">>, <<"q">> }

\* confirm in ['y', 'yes', '']
Confirmed(answer) == answer \in { <<"y">>, <<"y", "e", "s">>, <<>> }

\* The first input() of the loop of choose_mod_table and what follows it up
\* to the next input(): the line selects versions; with none selected the
\* prompt is repeated.  KeyboardInterrupt, or any other exception raised at
\* the prompt, makes choose_mod_table return None
choose_mod_table ==
    /\ pc = "choice"
    /\ \/ \E typed \in ChoiceLines :
            /\ choice' = Lower(Strip(typed))
            /\ selected_versions' = SelectedVersions(Lower(Strip(typed)))
            /\ pc' = IF SelectedVersions(Lower(Strip(typed))) # <<>>
                     THEN "confirm" ELSE "choice"
            /\ UNCHANGED selected_mod_tables
       \/ /\ selected_mod_tables' = None
          /\ pc' = "chosen"
          /\ UNCHANGED <<choice, selected_versions>>
    /\ UNCHANGED confirm
    /\ UNCHANGED enki_vars_but_pc
    /\ UNCHANGED transformer_vars
    /\ UNCHANGED <<user_input, user_response, n_, mod_table_index,
                   successful_exports, failed_exports, main_result>>

\* The input() that confirms the selection: 'y', 'yes' or an empty line
\* returns selected_versions, anything else goes back to the first prompt
choose_mod_table_confirm ==
    /\ pc = "confirm"
    /\ \/ \E typed \in ConfirmLines :
            /\ confirm' = Lower(Strip(typed))
            /\ IF Confirmed(Lower(Strip(typed)))
               THEN /\ selected_mod_tables' = selected_versions
                    /\ pc' = "chosen"
               ELSE /\ pc' = "choice"
                    /\ UNCHANGED selected_mod_tables
       \/ /\ selected_mod_tables' = None
          /\ pc' = "chosen"
          /\ UNCHANGED confirm
    /\ UNCHANGED <<choice, selected_versions>>
    /\ UNCHANGED enki_vars_but_pc
    /\ UNCHANGED transformer_vars
    /\ UNCHANGED <<user_input, user_response, n_, mod_table_index,
                   successful_exports, failed_exports, main_result>>

\* choose_mod_table called on its own, as the selection test calls it
InitChoose ==
    /\ pc = "choice"
    /\ N = 0
    /\ phi_ = None
    /\ roots_list_ = None
    /\ kappa_roots_ = None
    /\ kappa_total = 0
    /\ data_triangle_roots = None
    /\ combined_values_of_data_triangle = None
    /\ pva_array = None
    /\ pva_length = 0
    /\ DT_df = None
    /\ PVA_Mods = None
    /\ PVA_Mods_df = None
    /\ alpha_roots_pre_pivot = None
    /\ alpha_roots_post_pivot = None
    /\ combined_alpha_roots = None
    /\ alpha_roots_df = None
    /\ alpha_values = None
    /\ alpha_phorms_dataframe = None
    /\ NoTransformer
    /\ previous_N = 0
    /\ NoScript

NextChoose ==
    \/ choose_mod_table
    \/ choose_mod_table_confirm

SpecChoose == InitChoose /\ [][NextChoose]_vars

(***************************************************************************)
(* enki_pipeline.main (enki_pipeline.py 172-299): generation, selection,   *)
(* then one transformer and one export per selected mod table.             *)
(***************************************************************************)
\* the seed of the runs of main that are followed
MainSeeds == { <<5, 5, 5, 5, 5, 5>> }

\* the path export_transformed_data returns: its file name is made of N,
\* phi_ and the version
OutputFile(n, seed, version) == [N |-> n, phi_ |-> seed, version |-> version]

\* main reported as successful whatever was exported
PipelineCompleted(exports) == TRUE

\* `if not successful_exports: return False`, otherwise main returns True
PipelineSucceeded(exports) == exports # <<>>

\* main after enki.run_pipeline() has returned: alpha_data None (the user
\* quit) returns False, otherwise choose_mod_table is called
main_run_pipeline ==
    /\ pc = "returned"
    /\ main_result = "not returned"
    /\ IF N = 0
       THEN /\ main_result' = "False"
            /\ pc' = "main returned"
       ELSE /\ pc' = "choice"
            /\ UNCHANGED main_result
    /\ UNCHANGED enki_vars_but_pc
    /\ UNCHANGED transformer_vars
    /\ UNCHANGED <<user_input, user_response, n_, choice, selected_versions,
                   confirm, selected_mod_tables, mod_table_index,
                   successful_exports, failed_exports>>

\* main after choose_mod_table has returned: None returns False, a list
\* starts the loop with both export lists empty
main_choose_mod_table ==
    /\ pc = "chosen"
    /\ IF selected_mod_tables = None
       THEN /\ main_result' = "False"
            /\ pc' = "main returned"
            /\ UNCHANGED <<mod_table_index, successful_exports, failed_exports>>
       ELSE /\ successful_exports' = <<>>
            /\ failed_exports' = <<>>
            /\ mod_table_index' = 1
            /\ pc' = "transform"
            /\ UNCHANGED main_result
    /\ UNCHANGED enki_vars_but_pc
    /\ UNCHANGED transformer_vars
    /\ UNCHANGED <<user_input, user_response, n_, choice, selected_versions,
                   confirm, selected_mod_tables>>

\* One pass of the loop over selected_mod_tables: a new AlphaTransformer,
\* transform_alpha_dataframe with the default max_value, and, when that
\* returned a dataframe, export_transformed_data, whose to_pickle succeeds
\* or fails; the table is appended to successful_exports or to
\* failed_exports.  An exception raised by the transformer ends main with
\* False
main_transform ==
    /\ pc = "transform"
    /\ mod_table_index <= Len(selected_mod_tables)
    /\ LET mod_table_name == selected_mod_tables[mod_table_index]
           loaded  == LoadModTable(mod_table_name)
           invalid == IF loaded.raised THEN 0
                      ELSE FirstInvalid(loaded.table, alpha_phorms_dataframe,
                                        NativeInt(DefaultMaxValue))
       IN  /\ mod_table_version' = mod_table_name
           /\ last_call' = "transform_alpha_dataframe(df)"
           /\ IF loaded.raised \/ invalid # 0
              THEN /\ transformer_result' =
                        IF loaded.raised THEN "ValueError(Unknown version)"
                        ELSE "ValueError(Invalid data type)"
                   /\ phorms_mod_table_df' =
                        IF loaded.raised THEN None ELSE loaded.table
                   /\ transphormed_alpha_dataframe' = None
                   /\ records_transformed' = invalid
                   /\ loop_max_value' = NativeInt(DefaultMaxValue)
                   /\ main_result' = "False"
                   /\ pc' = "main returned"
                   /\ UNCHANGED <<mod_table_index, successful_exports,
                                  failed_exports, alpha_phorms_dataframe>>
              ELSE /\ transformer_result' = "returned dataframe"
                   /\ phorms_mod_table_df' = loaded.table
                   /\ transphormed_alpha_dataframe' =
                        TransformedDataFrame(loaded.table,
                                             alpha_phorms_dataframe,
                                             NativeInt(DefaultMaxValue))
                   /\ records_transformed' = Len(alpha_phorms_dataframe.index)
                   /\ loop_max_value' = NativeInt(DefaultMaxValue)
                   /\ alpha_phorms_dataframe' =
                        FrameAfterLoop(loaded.table, alpha_phorms_dataframe,
                                       NativeInt(DefaultMaxValue),
                                       Len(alpha_phorms_dataframe.index))
                   /\ \E exported \in BOOLEAN :
                        IF exported
                        THEN /\ successful_exports' =
                                  Append(successful_exports,
                                         [mod_table_name |-> mod_table_name,
                                          output_file |->
                                             OutputFile(N, phi_, mod_table_name)])
                             /\ UNCHANGED failed_exports
                        ELSE /\ failed_exports' =
                                  Append(failed_exports, mod_table_name)
                             /\ UNCHANGED successful_exports
                   /\ mod_table_index' = mod_table_index + 1
                   /\ UNCHANGED <<pc, main_result>>
    /\ UNCHANGED <<N, phi_, roots_list_, kappa_roots_, kappa_total,
                   data_triangle_roots, combined_values_of_data_triangle,
                   pva_array, pva_length, DT_df, PVA_Mods, PVA_Mods_df,
                   alpha_roots_pre_pivot, alpha_roots_post_pivot,
                   combined_alpha_roots, alpha_roots_df, alpha_values,
                   previous_N>>
    /\ UNCHANGED <<user_input, user_response, n_, choice, selected_versions,
                   confirm, selected_mod_tables>>

\* the end of main after the loop
main_summary ==
    /\ pc = "transform"
    /\ mod_table_index > Len(selected_mod_tables)
    /\ main_result' = IF PipelineSucceeded(successful_exports)
                      THEN "True" ELSE "False"
    /\ pc' = "main returned"
    /\ UNCHANGED enki_vars_but_pc
    /\ UNCHANGED transformer_vars
    /\ UNCHANGED <<user_input, user_response, n_, choice, selected_versions,
                   confirm, selected_mod_tables, mod_table_index,
                   successful_exports, failed_exports>>

\* main inside enki.run_pipeline(): after create_base of a run with N = 6,
\* or after the user quit at the first prompt
InitMain ==
    /\ \/ /\ pc = "root_arrays"
          /\ N = MinN
          /\ phi_ \in MainSeeds
       \/ /\ pc = "returned"
          /\ N = 0
          /\ phi_ = None
    /\ roots_list_ = None
    /\ kappa_roots_ = None
    /\ kappa_total = 0
    /\ data_triangle_roots = None
    /\ combined_values_of_data_triangle = None
    /\ pva_array = None
    /\ pva_length = 0
    /\ DT_df = None
    /\ PVA_Mods = None
    /\ PVA_Mods_df = None
    /\ alpha_roots_pre_pivot = None
    /\ alpha_roots_post_pivot = None
    /\ combined_alpha_roots = None
    /\ alpha_roots_df = None
    /\ alpha_values = None
    /\ alpha_phorms_dataframe = None
    /\ NoTransformer
    /\ previous_N = 0
    /\ NoScript

NextMain ==
    \/ root_arrays
    \/ create_kappa_root_arrays
    \/ create_data_triangle_roots
    \/ update_theta_root
    \/ update_lambda_root
    \/ update_epsilon_root
    \/ update_kappa_roots
    \/ combine_all_values_DT
    \/ create_pva_array
    \/ create_DT_dataframe
    \/ create_PVA_Mods
    \/ create_PVA_Mods_dataframe
    \/ create_alpha_roots_rows
    \/ create_alpha_roots_post_pivot
    \/ combine_alpha_roots
    \/ create_alpha_roots_dataframe
    \/ create_alpha
    \/ create_alpha_phorms_dataframe
    \/ main_run_pipeline
    \/ choose_mod_table
    \/ choose_mod_table_confirm
    \/ main_choose_mod_table
    \/ main_transform
    \/ main_summary

SpecMain == InitMain /\ [][NextMain]_vars

(***************************************************************************)
(* Claims.                                                                 *)
(***************************************************************************)

\* C1: after the cascade steps the collection holds exactly N named sequences in
\* the declared order chi, theta, lambda, epsilon, kappa_0.., and the k-th of
\* them (from 0) has length N - k: the last has length 1 and none is empty.
C1_CascadeLengths ==
    After("update_kappa_roots") =>
        /\ Len(data_triangle_roots) = N
        /\ \A k \in 0..(N - 1) :
              /\ data_triangle_roots[k + 1].name = DeclaredName(k)
              /\ Len(data_triangle_roots[k + 1].array) = N - k
        /\ Len(data_triangle_roots[N].array) = 1
        /\ \A k \in 1..Len(data_triangle_roots) :
              data_triangle_roots[k].array # <<>>

C1_Witness ==
    /\ After("update_kappa_roots")
    /\ N = MinN + 1
    /\ data_triangle_roots[N].name = "kappa_root_2"
    /\ Len(data_triangle_roots[N].array) = 1

\* C2: chi equals the seed and every later named sequence is the elementwise
\* absolute first difference of its predecessor; the seed [3,5,2,8,1,4] gives
\* theta=[2,3,6,7,3], lambda=[1,3,1,4], epsilon=[2,2,3], kappa_0=[0,1], kappa_1=[1].
C2_AbsoluteDifferences ==
    After("update_kappa_roots") =>
        /\ data_triangle_roots[1].array = phi_
        /\ \A k \in 1..(Len(data_triangle_roots) - 1) :
              LET prev == data_triangle_roots[k].array
                  this == data_triangle_roots[k + 1].array
              IN  /\ Len(this) = Len(prev) - 1
                  /\ \A i \in 1..(Len(prev) - 1) :
                        /\ this[i] >= 0
                        /\ \/ this[i] = prev[i + 1] - prev[i]
                           \/ this[i] = prev[i] - prev[i + 1]
        /\ phi_ = <<3, 5, 2, 8, 1, 4>> =>
              [k \in 1..6 |-> data_triangle_roots[k].array]
                 = << <<3, 5, 2, 8, 1, 4>>, <<2, 3, 6, 7, 3>>, <<1, 3, 1, 4>>,
                      <<2, 2, 3>>, <<0, 1>>, <<1>> >>

C2_Witness ==
    /\ After("update_kappa_roots")
    /\ phi_ = <<3, 5, 2, 8, 1, 4>>
    /\ data_triangle_roots[2].array = <<2, 3, 6, 7, 3>>
    /\ data_triangle_roots[6].array = <<1>>

\* C3: the Combined Flat Sequence has length exactly N*(N+1)/2.
C3_FlatLength ==
    After("combine_all_values_DT") =>
        Len(combined_values_of_data_triangle) = (N * (N + 1)) \div 2

C3_Witness ==
    /\ After("combine_all_values_DT")
    /\ N = MinN + 1
    /\ Len(combined_values_of_data_triangle) = 28
    /\ \E i \in 1..28 : combined_values_of_data_triangle[i] = 0

\* C4: the Combined Flat Sequence visits the padded table row-major: for
\* r = 0..N-1 in turn it holds chi[r], theta[r], .., seq_{N-1-r}[r]; every cascade
\* value appears exactly once and none is dropped.
C4_RowMajor ==
    After("combine_all_values_DT") =>
        /\ Len(combined_values_of_data_triangle) = (N * (N + 1)) \div 2
        /\ \A r \in 0..(N - 1) : \A k \in 0..(N - 1 - r) :
              combined_values_of_data_triangle[r * N - ((r * (r - 1)) \div 2) + k + 1]
                 = data_triangle_roots[k + 1].array[r + 1]

C4_Witness ==
    /\ After("combine_all_values_DT")
    /\ phi_ = <<3, 5, 2, 8, 1, 4>>
    /\ combined_values_of_data_triangle
          = <<3, 2, 1, 2, 0, 1,  5, 3, 3, 2, 1,  2, 6, 1, 3,  8, 7, 4,  1, 3,  4>>

\* C5: the trend codes have the length of the Combined Flat Sequence; below the
\* last index the code is 1 for an increase, 0 for a decrease and 2 for equal
\* neighbours; the last element is 3 and no other element is 3.
C5_TrendCodes ==
    After("create_pva_array") =>
        LET flat == combined_values_of_data_triangle
        IN  /\ Len(pva_array) = Len(flat)
            /\ pva_length = Len(flat)
            /\ \A i \in 1..(Len(flat) - 1) :
                  /\ flat[i + 1] > flat[i] => pva_array[i] = 1
                  /\ flat[i + 1] < flat[i] => pva_array[i] = 0
                  /\ flat[i + 1] = flat[i] => pva_array[i] = 2
                  /\ pva_array[i] # 3
            /\ pva_array[Len(pva_array)] = 3

C5_Witness ==
    /\ After("create_pva_array")
    /\ \A code \in 0..3 : \E i \in 1..Len(pva_array) : pva_array[i] = code
    /\ pva_array[Len(pva_array)] = 3

\* C6: the Modulation Matrix is N x N and is the cyclic row-major tiling of the
\* trend codes: M[i][j] = PVA[(i*N + j) mod len(PVA)] for 0 <= i, j < N.
C6_CyclicTiling ==
    After("create_PVA_Mods") =>
        /\ Len(PVA_Mods) = N
        /\ \A i \in 0..(N - 1) :
              /\ Len(PVA_Mods[i + 1]) = N
              /\ \A j \in 0..(N - 1) :
                    PVA_Mods[i + 1][j + 1]
                       = pva_array[((i * N + j) % Len(pva_array)) + 1]

C6_Witness ==
    /\ After("create_PVA_Mods")
    /\ N * N > Len(pva_array)
    /\ PVA_Mods[N][N] = pva_array[N * N - Len(pva_array)]
    /\ PVA_Mods[N][N] # PVA_Mods[1][N]

\* C7: the extractor yields exactly 2N-6 alpha roots, N-3 row-kind roots followed
\* by N-3 diagonal-kind roots, keyed alpha_root_0 .. alpha_root_{2N-7} with no gap
\* and no duplicate key.
C7_AlphaRootCount ==
    After("combine_alpha_roots") =>
        /\ Len(alpha_roots_pre_pivot) = N - 3
        /\ Len(alpha_roots_post_pivot) = N - 3
        /\ Len(combined_alpha_roots) = 2 * N - 6
        /\ \A i \in 1..Len(combined_alpha_roots) :
              combined_alpha_roots[i].key = "alpha_root_" \o ToString(i - 1)
        /\ \A i, j \in 1..Len(combined_alpha_roots) :
              combined_alpha_roots[i].key = combined_alpha_roots[j].key => i = j
        /\ \A i \in 1..(N - 3) :
              /\ combined_alpha_roots[i].value = alpha_roots_pre_pivot[i]
              /\ combined_alpha_roots[N - 3 + i].value
                    = alpha_roots_post_pivot[i].value

C7_Witness ==
    /\ After("combine_alpha_roots")
    /\ N = MinN + 1
    /\ Len(combined_alpha_roots) = 8
    /\ combined_alpha_roots[8].key = "alpha_root_7"

\* C8: for r in 0..N-4, alpha root r is row r of the Padded Table with its
\* sentinel cells removed: [chi[r], theta[r], .., seq_{N-1-r}[r]], of length N-r,
\* in column order.
C8_RowKindRoots ==
    After("combine_alpha_roots") =>
        \A r \in 0..(N - 4) :
            /\ Len(combined_alpha_roots[r + 1].value) = N - r
            /\ \A k \in 0..(N - 1 - r) :
                  combined_alpha_roots[r + 1].value[k + 1]
                     = data_triangle_roots[k + 1].array[r + 1]

C8_Witness ==
    /\ After("combine_alpha_roots")
    /\ phi_ = <<3, 5, 2, 8, 1, 4>>
    /\ combined_alpha_roots[1].value = <<3, 2, 1, 2, 0, 1>>
    /\ combined_alpha_roots[3].value = <<2, 6, 1, 3>>

\* C9: for each column c in 3..N-1, the diagonal-kind alpha root numbered N-6+c is
\* the reversed anti-diagonal ending in column c: [chi[c], theta[c-1], .., seq_c[0]],
\* of length c+1, with no padding inside it.
C9_DiagonalKindRoots ==
    After("combine_alpha_roots") =>
        \A c \in 3..(N - 1) :
            LET root == combined_alpha_roots[N - 6 + c + 1]
            IN  /\ root.key = "alpha_root_" \o ToString(N - 6 + c)
                /\ Len(root.value) = c + 1
                /\ \A k \in 0..c :
                      /\ root.value[k + 1] = data_triangle_roots[k + 1].array[c - k + 1]
                      /\ root.value[k + 1] # SENTINEL

C9_Witness ==
    /\ After("combine_alpha_roots")
    /\ phi_ = <<3, 5, 2, 8, 1, 4>>
    /\ combined_alpha_roots[4].value = <<8, 6, 3, 2>>
    /\ combined_alpha_roots[6].value = <<4, 3, 4, 3, 1, 1>>

\* C10: Repeater of a record equals the sum of the non-sentinel cells of its Alpha
\* Root Table row from column index 4 onward whenever that sum is non-zero; when
\* the sum is 0 it is a member of the repeater-source pool (all non-sentinel cells
\* from column 4 onward over all rows), or -1 if that pool is empty.
C10_Repeater ==
    After("create_alpha") =>
        LET table == alpha_roots_df.values
            Cell(i, c) == IF table[i][c] = SENTINEL THEN 0 ELSE table[i][c]
            RowSum[i \in 1..Len(table), c \in 4..Len(table[1])] ==
                IF c = 4 THEN 0 ELSE RowSum[i, c - 1] + Cell(i, c)
            Total(i) == RowSum[i, Len(table[i])]
            Pool == {table[i][c] : i \in 1..Len(table), c \in 5..Len(table[1])}
                       \ {SENTINEL}
        IN  /\ Len(alpha_values) = Len(table)
            /\ \A i \in 1..Len(table) :
                  /\ alpha_values[i].key = alpha_roots_df.index[i]
                  /\ Total(i) # 0 => alpha_values[i].value.Repeater = Total(i)
                  /\ Total(i) = 0 =>
                        IF Pool = {} THEN alpha_values[i].value.Repeater = -1
                        ELSE alpha_values[i].value.Repeater \in Pool

C10_Witness ==
    /\ After("create_alpha")
    /\ phi_ = <<3, 5, 2, 8, 1, 4>>
    /\ alpha_roots_df.values[2] = <<5, 3, 3, 2, 1, SENTINEL>>
    /\ alpha_values[6].value.Repeater = 2
    /\ alpha_roots_df.values[3] = <<2, 6, 1, 3, SENTINEL, SENTINEL>>
    /\ alpha_values[3].value.Repeater = 1
    /\ alpha_values[4].value.Repeater = 0

\* C11: Alpha_PV_Mod of record i is Modulation Matrix row i whenever a row
\* labelled i exists (i < N), otherwise it is some row of the Modulation Matrix;
\* in every case it has length N and each element is in {0,1,2,3}.
C11_AlphaPVMod ==
    After("create_alpha") =>
        \A i \in 0..(Len(alpha_values) - 1) :
            LET mod == alpha_values[i + 1].value.Alpha_PV_Mod
            IN  /\ i < N => mod = PVA_Mods[i + 1]
                /\ i >= N => \E r \in 1..Len(PVA_Mods) : mod = PVA_Mods[r]
                /\ Len(mod) = N
                /\ \A j \in 1..Len(mod) : mod[j] \in {0, 1, 2, 3}

C11_Witness ==
    /\ After("create_alpha")
    /\ N = MinN + 1
    /\ Len(alpha_values) = 8
    /\ alpha_values[1].value.Alpha_PV_Mod = PVA_Mods[1]
    /\ alpha_values[8].value.Alpha_PV_Mod = PVA_Mods[3]
    /\ PVA_Mods[3] # PVA_Mods[1]

\* C20: every alpha root has at least 4 values (row-kind root r has N-r >= 4,
\* the diagonal-kind root of column c has c+1 >= 4, none holds a SENTINEL), so
\* A_Root, the first 4 cells of the Alpha Root Table row, never contains
\* SENTINEL and all its values are in 0..9.
C20_RootsHaveFourValues ==
    After("create_alpha") =>
        /\ \A i \in 1..Len(combined_alpha_roots) :
              LET root == combined_alpha_roots[i].value
              IN  /\ Len(root) >= 4
                  /\ i <= N - 3 => Len(root) = N - (i - 1)
                  /\ i > N - 3 => Len(root) = (i - (N - 3) + 2) + 1
                  /\ \A k \in 1..Len(root) : root[k] # SENTINEL
        /\ \A i \in 1..Len(alpha_values) :
              LET A_Root == alpha_values[i].value.A_Root
              IN  /\ Len(A_Root) = 4
                  /\ A_Root = SubSeq(alpha_roots_df.values[i], 1, 4)
                  /\ \A k \in 1..4 : /\ A_Root[k] # SENTINEL
                                     /\ A_Root[k] \in 0..MaxDigitValue

C20_Witness ==
    /\ After("create_alpha")
    /\ phi_ = <<3, 5, 2, 8, 1, 4>>
    /\ Len(combined_alpha_roots[3].value) = 4
    /\ Len(combined_alpha_roots[4].value) = 4
    /\ alpha_roots_df.values[4] = <<8, 6, 3, 2, SENTINEL, SENTINEL>>
    /\ alpha_values[4].value.A_Root = <<8, 6, 3, 2>>

\* C12: every selector in every record's Alpha_PV_Mod is a key of the loaded
\* Phorms Mod Table, whatever its version, the table's keys being exactly
\* 0, 1, 2, 3; so no selector is skipped and each record's stored rows are
\* N + 1 rows (the A_Root row and one per selector), taken once or Repeater
\* times.
C12_SelectorsAreKeys ==
    /\ phorms_mod_table_df # None =>
          LET keys == { phorms_mod_table_df.index[t] :
                            t \in 1..Len(phorms_mod_table_df.index) }
          IN  /\ keys = {0, 1, 2, 3}
              /\ Len(phorms_mod_table_df.index) = 4
              /\ \A i \in 1..Len(alpha_phorms_dataframe.values) :
                    LET mod == alpha_phorms_dataframe.values[i].Alpha_PV_Mod
                    IN  \A j \in 1..Len(mod) : mod[j] \in keys
    /\ transphormed_alpha_dataframe # None =>
          \A i \in 1..Len(alpha_phorms_dataframe.values) :
              LET Repeater == alpha_phorms_dataframe.values[i].Repeater
                  rows     == transphormed_alpha_dataframe.values[i]
              IN  Len(rows) = (N + 1) * (IF Repeater = 0 THEN 1 ELSE Repeater)

\* an octave transformer stored the rows of a record that is taken once and
\* has a selector 3: all N + 1 rows are there
C12_Witness ==
    /\ transformer_result = "returned dataframe"
    /\ mod_table_version = "octave"
    /\ \E i \in 1..Len(alpha_phorms_dataframe.values) :
          /\ alpha_phorms_dataframe.values[i].Repeater = 0
          /\ \E j \in 1..N : alpha_phorms_dataframe.values[i].Alpha_PV_Mod[j] = 3
          /\ Len(transphormed_alpha_dataframe.values[i]) = N + 1

\* C13: a record's Transformed Alpha is its block of N + 1 rows once when
\* Repeater is 0, and otherwise that same block Repeater times over in
\* order; its length is N + 1 when Repeater is 0 and (N + 1) * Repeater
\* otherwise.
C13_Replication ==
    transphormed_alpha_dataframe # None =>
        \A i \in 1..Len(alpha_phorms_dataframe.values) :
            LET Repeater == alpha_phorms_dataframe.values[i].Repeater
                rows     == transphormed_alpha_dataframe.values[i]
                block    == SubSeq(rows, 1, N + 1)
            IN  /\ Len(rows) = IF Repeater = 0 THEN N + 1
                                               ELSE (N + 1) * Repeater
                /\ block[1] = alpha_phorms_dataframe.values[i].A_Root
                /\ \A r \in 1..Len(rows) : rows[r] = block[((r - 1) % (N + 1)) + 1]

\* one record is taken twice over and another, with Repeater 0, once
C13_Witness ==
    /\ transformer_result = "returned dataframe"
    /\ \E i \in 1..Len(alpha_phorms_dataframe.values) :
          /\ alpha_phorms_dataframe.values[i].Repeater = 2
          /\ Len(transphormed_alpha_dataframe.values[i]) = 2 * (N + 1)
          /\ transphormed_alpha_dataframe.values[i][N + 2] =
                alpha_phorms_dataframe.values[i].A_Root
          /\ transphormed_alpha_dataframe.values[i][2] #
                transphormed_alpha_dataframe.values[i][1]
    /\ \E i \in 1..Len(alpha_phorms_dataframe.values) :
          /\ alpha_phorms_dataframe.values[i].Repeater = 0
          /\ Len(transphormed_alpha_dataframe.values[i]) = N + 1

\* C14: in the row for selector position j, element k is max_value when the
\* selected function f of A_Root_Copy[k] is negative and f of A_Root_Copy[k]
\* modulo max_value + 1 otherwise; f is always applied to the original
\* A_Root_Copy, and no negative value is emitted.
C14_RowValues ==
    transformer_result = "returned dataframe" =>
        \A i \in 1..Len(alpha_phorms_dataframe.values) :
            LET record == alpha_phorms_dataframe.values[i]
                rows   == transphormed_alpha_dataframe.values[i]
            IN  \A j \in 1..Len(record.Alpha_PV_Mod) :
                \A k \in 1..Len(record.A_Root_Copy) :
                    LET raw == Transformation(phorms_mod_table_df.version,
                                              record.Alpha_PV_Mod[j],
                                              record.A_Root_Copy[k])
                    IN  /\ rows[j + 1][k] >= 0
                        /\ raw < 0 => rows[j + 1][k] = loop_max_value.value
                        /\ raw >= 0 =>
                              rows[j + 1][k] = raw % (loop_max_value.value + 1)

\* a custom transformer run with the default max_value: x - 3 met a value
\* below 3 and the row holds max_value there, and elsewhere a result of 10
\* or more wrapped around
C14_Witness ==
    /\ transformer_result = "returned dataframe"
    /\ mod_table_version = "custom"
    /\ loop_max_value = NativeInt(DefaultMaxValue)
    /\ \E i \in 1..Len(alpha_phorms_dataframe.values) :
          LET record == alpha_phorms_dataframe.values[i]
              rows   == transphormed_alpha_dataframe.values[i]
          IN  \E j \in 1..N : \E k \in 1..4 :
                /\ record.Alpha_PV_Mod[j] = 2
                /\ record.A_Root_Copy[k] < 3
                /\ rows[j + 1][k] = DefaultMaxValue
    /\ \E i \in 1..Len(alpha_phorms_dataframe.values) :
          LET record == alpha_phorms_dataframe.values[i]
              rows   == transphormed_alpha_dataframe.values[i]
          IN  \E j \in 1..N : \E k \in 1..4 :
                /\ record.Alpha_PV_Mod[j] = 3
                /\ record.A_Root_Copy[k] >= 5
                /\ rows[j + 1][k] = record.A_Root_Copy[k] + 5 - 10

\* C16 as stated: a transformation requested of a transformer whose version
\* name is not one of the eight fails with the ValueError for an unknown
\* version, before any record is transformed and with nothing stored.
C16_UnknownVersionRaises ==
    ( /\ mod_table_version \notin Versions
      /\ last_call \in { "transform_alpha_dataframe(None)",
                         "transform_alpha_dataframe(df)" } ) =>
        /\ transformer_result = "ValueError(Unknown version)"
        /\ records_transformed = 0
        /\ transphormed_alpha_dataframe = None

\* C16, amended: a transformation of a dataframe requested of a transformer
\* whose version name is not one of the eight fails with the ValueError for
\* an unknown version, before any record is transformed; a call given None
\* for the dataframe returns None without raising; either way no table is
\* loaded and the stored result stays as it was, which is None.
C16_UnknownVersionRaisesGivenData ==
    mod_table_version \notin Versions =>
        /\ last_call = "transform_alpha_dataframe(df)" =>
              transformer_result = "ValueError(Unknown version)"
        /\ last_call = "transform_alpha_dataframe(None)" =>
              transformer_result = "returned None"
        /\ transformer_result # "returned dataframe"
        /\ records_transformed = 0
        /\ phorms_mod_table_df = None
        /\ transphormed_alpha_dataframe = None

\* a transformer of version "lydian" was asked to transform the generator's
\* dataframe and raised
C16_Witness ==
    /\ pc = "returned"
    /\ mod_table_version = "lydian"
    /\ last_call = "transform_alpha_dataframe(df)"
    /\ alpha_phorms_dataframe # None
    /\ transformer_result = "ValueError(Unknown version)"

\* C17: when a row emitted for some record holds an element that is not a
\* native int (max_value itself, given as another numeric type, where the
\* function's result is negative), transform_alpha_dataframe raises at the
\* first such record, coerces nothing, and leaves the stored result as it
\* was before the call; a call returns a dataframe only when no record emits
\* such an element.
C17_InvalidRowsRaise ==
    /\ [] ( last_call = "transform_alpha_dataframe(df)" =>
              LET EmitsOther(i) ==
                      LET record == alpha_phorms_dataframe.values[i]
                      IN  /\ ~ loop_max_value.native
                          /\ \E j \in 1..Len(record.Alpha_PV_Mod) :
                             \E k \in 1..Len(record.A_Root_Copy) :
                                Transformation(phorms_mod_table_df.version,
                                               record.Alpha_PV_Mod[j],
                                               record.A_Root_Copy[k]) < 0
                  Records == 1..Len(alpha_phorms_dataframe.values)
              IN  /\ transformer_result = "returned dataframe" =>
                        \A i \in Records : ~ EmitsOther(i)
                  /\ transformer_result = "ValueError(Invalid data type)" =>
                        /\ records_transformed \in Records
                        /\ EmitsOther(records_transformed)
                        /\ \A i \in 1..(records_transformed - 1) :
                              ~ EmitsOther(i) )
    /\ [][ transformer_result' = "ValueError(Invalid data type)" =>
              transphormed_alpha_dataframe' = transphormed_alpha_dataframe ]_vars

\* a default transformer that had stored a result was run again with
\* max_value 9.0 and raised at a record holding a 0 under selector 0
C17_Witness ==
    /\ transformer_result = "ValueError(Invalid data type)"
    /\ mod_table_version = "default"
    /\ loop_max_value = Float(DefaultMaxValue)
    /\ transphormed_alpha_dataframe # None
    /\ LET record == alpha_phorms_dataframe.values[records_transformed]
       IN  \E j \in 1..N : \E k \in 1..4 :
              record.Alpha_PV_Mod[j] = 0 /\ record.A_Root_Copy[k] = 0

\* C18: a cascade step whose source sequence (chi for theta, theta for
\* lambda, lambda for epsilon, epsilon or a kappa_i that has a successor for
\* the kappas) is missing from the collection ends in the ValueError: the
\* run never gets past that step, every sequence after the missing one stays
\* empty, and the steps for theta, lambda and epsilon leave the collection
\* untouched.
C18_MissingSourceAborts ==
    /\ [] ( LET Present(name) ==
                    \E i \in 1..Len(data_triangle_roots) :
                        data_triangle_roots[i].name = name
                ArrayOf(name) ==
                    data_triangle_roots[
                        CHOOSE i \in 1..Len(data_triangle_roots) :
                            data_triangle_roots[i].name = name].array
                StepOf(k) == CASE k = 0 -> "update_theta_root"
                               [] k = 1 -> "update_lambda_root"
                               [] k = 2 -> "update_epsilon_root"
                               [] OTHER -> "update_kappa_roots"
                MissingSources ==
                    { k \in 0..(N - 2) : ~ Present(DeclaredName(k)) }
            IN  /\ \A k \in MissingSources :
                    /\ pc = "ValueError" \/ StepNo(pc) <= StepNo(StepOf(k))
                    /\ \A m \in (k + 1)..(N - 1) :
                          Present(DeclaredName(m)) =>
                              ArrayOf(DeclaredName(m)) = <<>>
                /\ pc = "ValueError" => MissingSources # {} )
    /\ [][ LET Present(name) ==
                    \E i \in 1..Len(data_triangle_roots) :
                        data_triangle_roots[i].name = name
               StepOf(k) == CASE k = 0 -> "update_theta_root"
                              [] k = 1 -> "update_lambda_root"
                              [] k = 2 -> "update_epsilon_root"
                              [] OTHER -> "update_kappa_roots"
           IN  \A k \in 0..(N - 2) :
                  (~ Present(DeclaredName(k)) /\ pc = StepOf(k)) =>
                      /\ pc' = "ValueError"
                      /\ k <= 2 => data_triangle_roots' = data_triangle_roots
         ]_vars

\* kappa_root_1 was taken out: update_kappa_roots computed kappa_root_0 and
\* raised, and kappa_root_2 is still empty
C18_Witness ==
    /\ pc = "ValueError"
    /\ N = MinN + 1
    /\ RootIndex(data_triangle_roots, "kappa_root_1") = 0
    /\ RootIndex(data_triangle_roots, "epsilon_root") # 0
    /\ RootIndex(data_triangle_roots, "kappa_root_0") # 0
    /\ RootIndex(data_triangle_roots, "kappa_root_2") # 0
    /\ Len(data_triangle_roots[RootIndex(data_triangle_roots, "kappa_root_0")].array) = 3
    /\ data_triangle_roots[RootIndex(data_triangle_roots, "kappa_root_2")].array = <<>>

\* C19: nothing of an earlier run carries over: once a step of the current
\* run_pipeline call has run, the field it assigns is exactly what that step
\* computes from N, the seed and the fields the current run has already
\* assigned, with the entries of the current N only; so a second run on the
\* same instance, with the same or another N, ends in what a new instance
\* produces.
C19_NoCarryOver ==
    /\ After("create_kappa_root_arrays") =>
          /\ kappa_total = N - 4
          /\ Len(kappa_roots_) = N - 4
          /\ Len(roots_list_) = 4
    /\ After("update_kappa_roots") =>
          /\ Len(data_triangle_roots) = N
          /\ data_triangle_roots[1].array = phi_
          /\ \A k \in 1..N :
                /\ data_triangle_roots[k].name = DeclaredName(k - 1)
                /\ Len(data_triangle_roots[k].array) = N - (k - 1)
          /\ \A k \in 2..N :
                \A i \in 1..(N - (k - 1)) :
                    LET a == data_triangle_roots[k - 1].array
                        d == a[i + 1] - a[i]
                    IN  data_triangle_roots[k].array[i] = IF d < 0 THEN -d ELSE d
    /\ After("combine_all_values_DT") =>
          combined_values_of_data_triangle = CombineAllValues(data_triangle_roots)
    /\ After("create_pva_array") =>
          /\ pva_array = PvaArray(combined_values_of_data_triangle)
          /\ pva_length = Len(pva_array)
    /\ After("create_DT_dataframe") =>
          DT_df = DataFrameOfColumns(PaddedData(data_triangle_roots),
                                     MaxLength(data_triangle_roots))
    /\ After("create_PVA_Mods") => PVA_Mods = PVAModsOf(pva_array, N)
    /\ After("create_PVA_Mods_dataframe") =>
          /\ PVA_Mods_df.values = PVA_Mods
          /\ PVA_Mods_df.index = [i \in 1..N |-> PVModLabel(i - 1)]
    /\ After("create_alpha_roots_rows") =>
          alpha_roots_pre_pivot = OutputRows(DT_df, N)
    /\ After("create_alpha_roots_post_pivot") =>
          alpha_roots_post_pivot = PostPivot(DT_df, alpha_roots_pre_pivot)
    /\ After("combine_alpha_roots") =>
          /\ Len(combined_alpha_roots) =
                Len(alpha_roots_pre_pivot) + Len(alpha_roots_post_pivot)
          /\ \A i \in 1..Len(combined_alpha_roots) :
                /\ combined_alpha_roots[i].key = AlphaRootLabel(i - 1)
                /\ combined_alpha_roots[i].value =
                      IF i <= Len(alpha_roots_pre_pivot)
                      THEN alpha_roots_pre_pivot[i]
                      ELSE alpha_roots_post_pivot[
                               i - Len(alpha_roots_pre_pivot)].value
    /\ After("create_alpha_roots_dataframe") =>
          alpha_roots_df = DataFrameOfRows(combined_alpha_roots)
    /\ After("create_alpha") =>
          /\ Len(alpha_values) = Len(alpha_roots_df.index)
          /\ \A i \in 1..Len(alpha_values) :
                LET record == alpha_values[i].value
                    row    == alpha_roots_df.values[i]
                IN  /\ alpha_values[i].key = alpha_roots_df.index[i]
                    /\ record.A_Root = FirstFour(row)
                    /\ record.A_Root_Copy = FirstFour(row)
                    /\ RepeaterSum(row) # 0 => record.Repeater = RepeaterSum(row)
                    /\ RepeaterSum(row) = 0 =>
                          record.Repeater \in
                              AllRepeaterValues(alpha_roots_df) \cup {-1}
                    /\ \E r \in 1..Len(PVA_Mods_df.values) :
                          record.Alpha_PV_Mod = PVA_Mods_df.values[r]
    /\ After("create_alpha_phorms_dataframe") =>
          /\ alpha_phorms_dataframe.index =
                [i \in 1..Len(alpha_values) |-> alpha_values[i].key]
          /\ alpha_phorms_dataframe.values =
                [i \in 1..Len(alpha_values) |-> alpha_values[i].value]

\* a run with N = 7 was followed on the same instance by a run with N = 6,
\* which has returned with 6 named sequences and 6 records
C19_Witness ==
    /\ pc = "returned"
    /\ previous_N = MinN + 1
    /\ N = MinN
    /\ Len(data_triangle_roots) = MinN
    /\ Len(combined_alpha_roots) = MinN
    /\ Len(alpha_values) = MinN
    /\ Len(alpha_phorms_dataframe.index) = MinN

\* C21: the repeater-source pool is never empty (alpha root 0 alone has N - 4
\* cells past its first four, at least 2), so no Repeater is the -1 of the
\* empty pool: every record has 0 <= Repeater <= 9 * (N - 4), and every
\* stored Transformed Alpha has at least N + 1 rows and is never empty.
C21_RepeaterNeverNegative ==
    /\ After("create_alpha") =>
          /\ N - 4 >= 2
          /\ \A k \in 5..N : alpha_roots_df.values[1][k] # SENTINEL
          /\ \A i \in 1..Len(alpha_values) :
                /\ alpha_values[i].value.Repeater # -1
                /\ alpha_values[i].value.Repeater \in 0..(9 * (N - 4))
    /\ transphormed_alpha_dataframe # None =>
          \A i \in 1..Len(transphormed_alpha_dataframe.values) :
              /\ transphormed_alpha_dataframe.values[i] # <<>>
              /\ Len(transphormed_alpha_dataframe.values[i]) >= N + 1

\* a record without repeater-source cells drew 1 from the pool, another
\* drew 0, and both have a Transformed Alpha of N + 1 rows; a record with
\* repeater-source cells summing to 2 has 2 * (N + 1) rows
C21_Witness ==
    /\ transformer_result = "returned dataframe"
    /\ \E i \in 1..Len(alpha_values) :
          /\ \A k \in 5..N : alpha_roots_df.values[i][k] = SENTINEL
          /\ alpha_values[i].value.Repeater = 1
          /\ Len(transphormed_alpha_dataframe.values[i]) = N + 1
    /\ \E i \in 1..Len(alpha_values) :
          /\ \A k \in 5..N : alpha_roots_df.values[i][k] = SENTINEL
          /\ alpha_values[i].value.Repeater = 0
          /\ Len(transphormed_alpha_dataframe.values[i]) = N + 1
    /\ \E i \in 1..Len(alpha_values) :
          /\ alpha_values[i].value.Repeater = 2
          /\ Len(transphormed_alpha_dataframe.values[i]) = 2 * (N + 1)

\* C22: record N - 4 (the last row-kind root) and record N - 3 (the first
\* diagonal-kind root) have exactly 4 values, so no repeater-source cell and
\* a sum of 0: for every N and seed their Repeater is a draw from the pool.
C22_FourValueRecordsDraw ==
    After("create_alpha") =>
        /\ Len(alpha_roots_pre_pivot) = N - 3
        /\ Len(alpha_roots_pre_pivot[N - 3]) = 4
        /\ Len(alpha_roots_post_pivot[1].value) = 4
        /\ \A r \in {N - 3, N - 2} :
              /\ alpha_values[r].key = alpha_roots_df.index[r]
              /\ \A k \in 1..4 : alpha_roots_df.values[r][k] # SENTINEL
              /\ \A k \in 5..N : alpha_roots_df.values[r][k] = SENTINEL
              /\ Len(alpha_values[r].value.A_Root) = 4
              /\ alpha_values[r].value.Repeater \in
                    {alpha_roots_df.values[i][k] :
                        i \in 1..Len(alpha_roots_df.values), k \in 5..N}
                    \ {SENTINEL}

\* the two records drew different values of a pool that holds a 9
C22_Witness ==
    /\ After("create_alpha")
    /\ alpha_values[N - 3].value.Repeater = MaxDigitValue
    /\ alpha_values[N - 2].value.Repeater # MaxDigitValue
    /\ alpha_roots_df.values[N - 3][5] = SENTINEL
    /\ alpha_roots_df.values[N - 2][5] = SENTINEL

\* C23: the records whose adjusted label is no row label of the Modulation
\* Matrix, which take a random row as Alpha_PV_Mod, are exactly the records
\* with index N..2N-7 (N - 6 of them): none when N = 6, at least one when
\* N >= 7; records 0..N-1 always get their own matrix row.
C23_SampledRecords ==
    After("create_alpha") =>
        LET own(i) == {r \in 1..Len(PVA_Mods_df.index) :
                          /\ alpha_values[i + 1].key = AlphaRootLabel(i)
                          /\ PVA_Mods_df.index[r] = AlphaLabel(i) \o "_PV_mod"}
            fallback == {i \in 0..(Len(alpha_values) - 1) : own(i) = {}}
        IN  /\ Len(alpha_values) = 2 * N - 6
            /\ fallback = N..(2 * N - 7)
            /\ Cardinality(fallback) = N - 6
            /\ N = 6 => fallback = {}
            /\ N >= 7 => fallback # {}
            /\ \A i \in 0..(N - 1) :
                  /\ Cardinality(own(i)) = 1
                  /\ \A r \in own(i) :
                        alpha_values[i + 1].value.Alpha_PV_Mod = PVA_Mods_df.values[r]
            /\ \A i \in fallback :
                  \E r \in 1..Len(PVA_Mods_df.values) :
                      alpha_values[i + 1].value.Alpha_PV_Mod = PVA_Mods_df.values[r]

\* N = 7: record 7 is the one record without a row of its own and holds the
\* last matrix row, which differs from the row of record 0
C23_Witness ==
    /\ After("create_alpha")
    /\ N = 7
    /\ alpha_values[8].key = "alpha_root_7"
    /\ PVA_Mods_df.index[7] = "alpha_6_PV_mod"
    /\ Len(PVA_Mods_df.index) = 7
    /\ alpha_values[8].value.Alpha_PV_Mod = PVA_Mods_df.values[7]
    /\ PVA_Mods_df.values[7] # PVA_Mods_df.values[1]
    /\ alpha_values[1].value.Alpha_PV_Mod = PVA_Mods_df.values[1]

\* C24: the Modulation Matrix holds the terminator code 3 in exactly one
\* cell, the one at row-major index N*(N+1)/2 - 1; every other cell is in
\* {0,1,2}: the cyclic fill passes the end of the codes exactly once.
C24_OneTerminator ==
    After("create_PVA_Mods") =>
        LET t == ((N * (N + 1)) \div 2) - 1
            threes == {rc \in (1..Len(PVA_Mods)) \X (1..N) : PVA_Mods[rc[1]][rc[2]] = 3}
        IN  /\ Len(PVA_Mods) = N
            /\ \A r \in 1..N : Len(PVA_Mods[r]) = N
            /\ t < N * N
            /\ 2 * (t + 1) - 1 >= N * N
            /\ threes = {<<(t \div N) + 1, (t % N) + 1>>}
            /\ \A r \in 1..N : \A c \in 1..N :
                  <<r, c>> \notin threes => PVA_Mods[r][c] \in {0, 1, 2}

\* N = 7: the 3 is cell 27, row 3 column 6, and the cells after it repeat the
\* codes from the start, all three of 0, 1, 2 occurring after the wrap
C24_Witness ==
    /\ After("create_PVA_Mods")
    /\ N = 7
    /\ PVA_Mods[4][7] = 3
    /\ PVA_Mods[5][1] = PVA_Mods[1][1]
    /\ PVA_Mods[7][7] = PVA_Mods[3][7]
    /\ \A code \in {0, 1, 2} : \E r \in 5..7 : \E c \in 1..7 : PVA_Mods[r][c] = code

\* C26: every value of every named sequence of the cascade is in 0..9, so no
\* real value equals SENTINEL, and the sentinel tests of the flatten step and
\* of the row extraction remove padding only: the flat array holds every value
\* of every sequence, and output row r holds element r of every sequence
\* that has one.
C26_SentinelNeverReal ==
    /\ After("update_kappa_roots") =>
          \A k \in 1..Len(data_triangle_roots) :
              \A j \in 1..Len(data_triangle_roots[k].array) :
                  /\ data_triangle_roots[k].array[j] \in 0..MaxDigitValue
                  /\ data_triangle_roots[k].array[j] # SENTINEL
    /\ After("combine_all_values_DT") =>
          /\ Len(combined_values_of_data_triangle) =
                Sum([k \in 1..Len(data_triangle_roots) |->
                        Len(data_triangle_roots[k].array)])
          /\ \A v \in 0..MaxDigitValue :
                Cardinality({j \in 1..Len(combined_values_of_data_triangle) :
                                combined_values_of_data_triangle[j] = v}) =
                Sum([k \in 1..Len(data_triangle_roots) |->
                        Cardinality({j \in 1..Len(data_triangle_roots[k].array) :
                                        data_triangle_roots[k].array[j] = v})])
    /\ After("create_alpha_roots_rows") =>
          \A r \in 1..Len(alpha_roots_pre_pivot) :
              /\ Len(alpha_roots_pre_pivot[r]) =
                    Cardinality({k \in 1..Len(data_triangle_roots) :
                                    Len(data_triangle_roots[k].array) >= r})
              /\ \A c \in 1..Len(alpha_roots_pre_pivot[r]) :
                    alpha_roots_pre_pivot[r][c] = data_triangle_roots[c].array[r]

\* the largest digit 9 and the digit 0 are real values of the first output
\* row and of the flat array, next to padding in the table they are read from
C26_Witness ==
    /\ After("create_alpha_roots_rows")
    /\ \E c \in 5..N : alpha_roots_pre_pivot[1][c] = MaxDigitValue
    /\ \E c \in 5..N : alpha_roots_pre_pivot[1][c] = 0
    /\ \E j \in 1..Len(combined_values_of_data_triangle) :
          combined_values_of_data_triangle[j] = MaxDigitValue
    /\ DT_df.values[2][N] = SENTINEL

\* C25: with the default max_value of 9 every integer of every Transformed
\* Alpha, the leading A_Root row and every transformed row, is in 0..9, for
\* every mod table version, record and seed; so is what every selector of
\* the loaded table makes of each digit 0..9.
C25_OutputRange ==
    (transformer_result = "returned dataframe"
        /\ loop_max_value.value = DefaultMaxValue) =>
        \A i \in 1..Len(transphormed_alpha_dataframe.values) :
            LET rows == transphormed_alpha_dataframe.values[i]
            IN  /\ rows # <<>> /\ rows[1] = alpha_phorms_dataframe.values[i].A_Root
                /\ \A r \in 1..Len(rows) : \A k \in 1..Len(rows[r]) :
                      rows[r][k] \in 0..DefaultMaxValue
                /\ \A x \in 0..MaxDigitValue :
                   \A key \in 1..Len(phorms_mod_table_df.index) :
                      TransformedRow(phorms_mod_table_df,
                                     phorms_mod_table_df.index[key], <<x>>,
                                     NativeInt(DefaultMaxValue))[1].value
                          \in 0..DefaultMaxValue

\* with the increment table a value above 9 came back reduced by 10
C25_Witness ==
    /\ transformer_result = "returned dataframe"
    /\ loop_max_value = NativeInt(DefaultMaxValue)
    /\ mod_table_version = "increment"
    /\ \E i \in 1..Len(alpha_phorms_dataframe.values) :
          LET record == alpha_phorms_dataframe.values[i]
              rows   == transphormed_alpha_dataframe.values[i]
          IN  \E j \in 1..N : \E k \in 1..4 :
                /\ record.A_Root_Copy[k] + 2 * record.Alpha_PV_Mod[j] > DefaultMaxValue
                /\ rows[j + 1][k] =
                      record.A_Root_Copy[k] + 2 * record.Alpha_PV_Mod[j] - 10
                /\ rows[1][k] = record.A_Root_Copy[k]

\* C27: transform_alpha_dataframe leaves the Alpha Records it is given
\* unchanged: A_Root, A_Root_Copy, Alpha_PV_Mod and Repeater of every record
\* are the same after the call as before, whatever the call returns or
\* raises, so every transformer applied later reads the records the generator
\* built.
C27_RecordsUnchanged ==
    /\ [](pc = "returned" =>
            /\ Len(alpha_phorms_dataframe.values) = Len(alpha_values)
            /\ \A i \in 1..Len(alpha_values) :
                  alpha_phorms_dataframe.values[i] = alpha_values[i].value)
    /\ [][(pc = "returned" /\ pc' = "returned") =>
            /\ Len(alpha_phorms_dataframe'.values) =
                  Len(alpha_phorms_dataframe.values)
            /\ \A i \in 1..Len(alpha_phorms_dataframe.values) :
                  /\ alpha_phorms_dataframe'.values[i].A_Root =
                        alpha_phorms_dataframe.values[i].A_Root
                  /\ alpha_phorms_dataframe'.values[i].A_Root_Copy =
                        alpha_phorms_dataframe.values[i].A_Root_Copy
                  /\ alpha_phorms_dataframe'.values[i].Alpha_PV_Mod =
                        alpha_phorms_dataframe.values[i].Alpha_PV_Mod
                  /\ alpha_phorms_dataframe'.values[i].Repeater =
                        alpha_phorms_dataframe.values[i].Repeater]_vars

\* a call has stored rows that differ from the A_Root they were made from,
\* and the record still holds that A_Root in both fields
C27_Witness ==
    /\ transformer_result = "returned dataframe"
    /\ last_call = "transform_alpha_dataframe(df)"
    /\ records_transformed = Len(alpha_phorms_dataframe.values)
    /\ \E i \in 1..Len(alpha_phorms_dataframe.values) :
          LET record == alpha_phorms_dataframe.values[i]
              rows   == transphormed_alpha_dataframe.values[i]
          IN  /\ rows[Len(rows)] # record.A_Root
              /\ rows[1] = record.A_Root
              /\ record.A_Root_Copy = record.A_Root
              /\ record = alpha_values[i].value

\* C29: whatever the user types, Enki_User_Interface returns None, after a
\* 'q' at the prompt for n, or an integer n with 6 <= n <= 15 that the user
\* confirmed with 'y'; run_pipeline runs no generation step after None, so
\* every seed and cascade built through run_pipeline has an N in 6..15.
C29_ConfirmedNInRange ==
    /\ pc \in {"get_user_input", "user_response"} =>
          /\ N = 0 /\ phi_ = None /\ data_triangle_roots = None
          /\ pc = "user_response" => n_ \in MinN..UpperN
    /\ pc \notin {"get_user_input", "user_response"} =>
          \/ /\ N = 0
             /\ pc = "returned"
             /\ user_input = <<"q">>
             /\ phi_ = None /\ roots_list_ = None /\ kappa_roots_ = None
             /\ data_triangle_roots = None
          \/ /\ N \in MinN..UpperN
             /\ N >= 6 /\ N <= 15
             /\ user_response = <<"y">>
             /\ user_input \in {<<"6">>, <<"0", "6">>, <<"1", "0">>,
                                <<"1", "1">>, <<"1", "5">>, <<"0", "1", "0">>,
                                <<"0", "0", "6">>, <<"0", "1", "1">>,
                                <<"0", "1", "5">>}
             /\ N = Decimal(user_input)
             /\ phi_ # None => Len(phi_) = N
             /\ data_triangle_roots # None =>
                   /\ Len(data_triangle_roots) = N
                   /\ Len(data_triangle_roots[1].array) = N

\* the cascade of a run with N = 15, typed as "15" and confirmed with 'y'
C29_Witness ==
    /\ pc = "combine_all_values_DT"
    /\ N = UpperN
    /\ user_input = <<"1", "5">>
    /\ user_response = <<"y">>
    /\ Len(data_triangle_roots) = UpperN
    /\ Len(data_triangle_roots[UpperN].array) = 1

\* C30: a comma-separated line with an invalid entry selects nothing: the
\* prompt is repeated and no version named on that line is offered for
\* confirmation or returned; every list returned was confirmed by the user
\* and holds only version names that phorms_mod_table supports.
C30_InvalidEntrySelectsNothing ==
    LET keyword == choice \in {<<"a", "l", "l">>, <<"m", "u", "s", "i", "c">>}
        invalid == /\ ~ keyword
                   /\ \E k \in 1..Len(Choices(choice)) :
                         ~ InOptions(Choices(choice)[k])
    IN  /\ pc = "confirm" => ~ invalid
        /\ (pc = "chosen" /\ selected_mod_tables # None) =>
              /\ ~ invalid
              /\ confirm \in { <<"y">>, <<"y", "e", "s">>, <<>> }
              /\ \A k \in 1..Len(selected_mod_tables) :
                    selected_mod_tables[k] \in Versions

\* C28: in main every selected mod table that has been processed is in
\* exactly one of successful_exports and failed_exports; main returns True
\* only if at least one selected table was transformed and exported; it
\* returns False, with nothing transformed, when generation or the selection
\* was cancelled.
C28_ExportBookkeeping ==
    /\ [](pc \in {"transform", "main returned"} /\ selected_mod_tables # None =>
            LET processed == mod_table_index - 1
                times(list, name) ==
                    Cardinality({k \in 1..Len(list) : list[k] = name})
                exported == [k \in 1..Len(successful_exports) |->
                                successful_exports[k].mod_table_name]
            IN  /\ processed \in 0..Len(selected_mod_tables)
                /\ Len(successful_exports) + Len(failed_exports) = processed
                /\ \A name \in Versions :
                      times(exported, name) + times(failed_exports, name) =
                      times(SubSeq(selected_mod_tables, 1, processed), name))
    /\ [](main_result = "True" =>
            /\ successful_exports # <<>>
            /\ mod_table_index = Len(selected_mod_tables) + 1
            /\ \A k \in 1..Len(successful_exports) :
                  /\ \E j \in 1..Len(selected_mod_tables) :
                        selected_mod_tables[j] = successful_exports[k].mod_table_name
                  /\ successful_exports[k].output_file.version =
                        successful_exports[k].mod_table_name)
    /\ []((pc = "main returned" /\ (N = 0 \/ selected_mod_tables = None)) =>
            /\ main_result = "False"
            /\ transformer_result = "no transformer"
            /\ transphormed_alpha_dataframe = None
            /\ mod_table_index = 0
            /\ successful_exports = <<>> /\ failed_exports = <<>>)
    /\ [][(pc = "transform" /\ mod_table_index' = mod_table_index + 1) =>
            /\ mod_table_version' = selected_mod_tables[mod_table_index]
            /\ transformer_result' = "returned dataframe"
            /\ transphormed_alpha_dataframe' # None
            /\ \/ /\ successful_exports' =
                        Append(successful_exports,
                               [mod_table_name |-> mod_table_version',
                                output_file |->
                                   [N |-> N, phi_ |-> phi_,
                                    version |-> mod_table_version']])
                  /\ failed_exports' = failed_exports
               \/ /\ failed_exports' = Append(failed_exports, mod_table_version')
                  /\ successful_exports' = successful_exports]_vars

\* main returned True after the five musical tables, some exported and some
\* not; the last one, octave, was transformed
C28_Witness ==
    /\ pc = "main returned"
    /\ main_result = "True"
    /\ choice = <<"m", "u", "s", "i", "c">>
    /\ Len(selected_mod_tables) = 5
    /\ Len(successful_exports) = 2
    /\ Len(failed_exports) = 3
    /\ failed_exports[3] = "octave"
    /\ mod_table_version = "octave"
    /\ transformer_result = "returned dataframe"

====
